---- MODULE Spec2Model ----
(***************************************************************************)
(* The agentic tool-orchestration loop of the chat service:                *)
(* chat() and runReActLoop() of server/services/gemini.js, with the tool   *)
(* dispatch of server/services/functionCalling.js and                      *)
(* server/services/mcpClient.js.  One behaviour is one request.  Every     *)
(* await of the code (a model call, a tool dispatch) is a point where the  *)
(* environment chooses the outcome: the model's response, the outcome of   *)
(* the external service behind a tool, or a failure of the call.           *)
(***************************************************************************)
EXTENDS Integers, Sequences, FiniteSets, TLC

(***************************************************************************)
(* Bounds of the model.                                                    *)
(***************************************************************************)
MaxStepsBound == 2
MaxRetriesBound == 2
MaxCalls == 2
\* Names of servers and tools are spelled out up to this length; longer
\* names are a short name followed by one repeated character.
MaxNameLength == 2
\* Input schemas nest through properties and items up to this depth.
MaxSchemaDepth == 2

(***************************************************************************)
(* Program constants.                                                      *)
(***************************************************************************)
MinReplyLength == 60
\* s.slice(0, 64) of sanitizeToolName
ToolNameLimit == 64

(***************************************************************************)
(* JavaScript values.  Null stands for null/undefined where the code       *)
(* expects an object, Undefined for a missing string.                      *)
(***************************************************************************)
Null == [null |-> TRUE]
Undefined == "<undefined>"

\* Truthiness of a string-valued field and of an object-valued field.
TruthyStr(v) == v # Undefined /\ v # ""
TruthyObj(v) == v # Null

(***************************************************************************)
(* Reply texts.  A text is represented by what the code looks at: its      *)
(* length, its length after trim(), and how one of the low-confidence      *)
(* phrases occurs in it: not at all ("none"), in lower case ("lower") or   *)
(* with capital letters ("mixed").  ShortText is padded with white space   *)
(* to more than the minimum length; HedgedText starts a sentence with      *)
(* "Unfortunately".                                                        *)
(***************************************************************************)
EmptyText == [raw |-> 0, trimmed |-> 0, phrase |-> "none"]
ShortText == [raw |-> MinReplyLength + 1, trimmed |-> MinReplyLength - 1, phrase |-> "none"]
HedgedText == [raw |-> MinReplyLength, trimmed |-> MinReplyLength, phrase |-> "mixed"]
ConfidentText == [raw |-> MinReplyLength, trimmed |-> MinReplyLength, phrase |-> "none"]

ReplyTexts == {EmptyText, ShortText, HedgedText, ConfidentText}

\* text.toLowerCase()
toLowerCase(text) ==
    [text EXCEPT !.phrase = IF text.phrase = "mixed" THEN "lower" ELSE text.phrase]

\* lowConf.some(p => lower.includes(p)): the phrases of the list are in
\* lower case.
IncludesLowConf(lower) == lower.phrase = "lower"

\* Variant: a reply of exactly the minimum length is too short.
isUnsatisfactoryResponse_LengthInclusive(text) ==
    IF text.raw = 0 \/ text.trimmed <= MinReplyLength THEN TRUE
    ELSE IncludesLowConf(toLowerCase(text))

isUnsatisfactoryResponse(text) ==
    IF text.raw = 0 \/ text.trimmed < MinReplyLength THEN TRUE
    ELSE IncludesLowConf(toLowerCase(text))

(***************************************************************************)
(* The external tool registry of mcpClient.js.                             *)
(***************************************************************************)
McpToolName == "srv__ask_agent"

\* clients is a Map in insertion order: a sequence of entries, each with
\* the name of the server, the tools it listed, and whether close() was
\* called on its client.
ClientEntry(name, tools) == [name |-> name, tools |-> tools, closed |-> FALSE]

ConnectedServers(cs) == {cs[i].name : i \in 1..Len(cs)}

\* clients.get(serverName), for a server that has an entry
ClientOf(cs, name) == cs[CHOOSE i \in 1..Len(cs) : cs[i].name = name]

InitialClients == <<ClientEntry("srv", <<"ask_agent">>)>>
InitialToolRegistry == [n \in {McpToolName} |-> [serverName |-> "srv", originalName |-> "ask_agent"]]

(***************************************************************************)
(* sanitizeToolName.  Where names are studied they are sequences of        *)
(* characters (UTF-16 code units): a letter, a digit, the underscore, the  *)
(* hyphen (allowed, but not at the start) and the space (not allowed).     *)
(***************************************************************************)
NameChars == {"a", "7", "_", "-", " "}
\* The letters of the names that are spelled out.
Letters == {"a", "b", "c", "e", "h", "r", "s", "w"}
\* [a-zA-Z0-9_.:\-] and [a-zA-Z_] over these characters
IsNameChar(c) == c \in Letters \cup {"7", "_", "-"}
IsNameStart(c) == c \in Letters \cup {"_"}

Min(a, b) == IF a < b THEN a ELSE b

\* name.replace(/[^a-zA-Z0-9_.:\-]/g, '_')
ReplaceInvalid(name) ==
    [i \in 1..Len(name) |-> IF IsNameChar(name[i]) THEN name[i] ELSE "_"]

\* if (!/^[a-zA-Z_]/.test(s)) s = '_' + s
PrefixUnderscore(s) ==
    IF Len(s) > 0 /\ IsNameStart(s[1]) THEN s ELSE <<"_">> \o s

\* s.slice(0, 64)
Slice(s, n) == SubSeq(s, 1, Min(Len(s), n))

\* Variant: the name is cut to its maximum length before the underscore is
\* put in front.
sanitizeToolName_SliceFirst(name) ==
    PrefixUnderscore(Slice(ReplaceInvalid(name), ToolNameLimit))

sanitizeToolName(name) ==
    Slice(PrefixUnderscore(ReplaceInvalid(name)), ToolNameLimit)

(***************************************************************************)
(* sanitizeForGemini.  A JSON value is a primitive (Prim, with its text;   *)
(* the empty string and null are falsy), an array (Arr, with its elements) *)
(* or an object (Obj, with its fields as a function of their names).       *)
(***************************************************************************)
Prim(text) == [kind |-> "prim", text |-> text]
Arr(elems) == [kind |-> "array", elems |-> elems]
Obj(fields) == [kind |-> "object", fields |-> fields]

JsNull == Prim("<null>")
Truthy(v) == v.kind # "prim" \/ v.text \notin {"", "<null>"}

\* The fields the model checker meets out of GEMINI_ALLOWED_FIELDS.
GEMINI_ALLOWED_FIELDS ==
    {"type", "description", "properties", "items", "enum", "required",
     "nullable", "format", "minimum", "maximum", "minLength", "maxLength",
     "minItems", "maxItems", "pattern"}

\* Object.entries(v) of an object, and of an array (the keys are the
\* indices).
IndexKey(i) == <<"0", "1", "2">>[i]
Entries(v) ==
    IF v.kind = "array"
    THEN [k \in {IndexKey(i) : i \in 1..Len(v.elems)} |->
            v.elems[CHOOSE i \in 1..Len(v.elems) : IndexKey(i) = k]]
    ELSE v.fields

RECURSIVE sanitizeForGemini(_)
sanitizeForGemini(schema) ==
    \* if (!schema || typeof schema !== 'object' || Array.isArray(schema))
    \*   return schema
    IF schema.kind # "object" THEN schema
    ELSE LET kept == DOMAIN schema.fields \cap GEMINI_ALLOWED_FIELDS
             out == [k \in kept |->
                       LET v == schema.fields[k]
                       IN  IF k = "properties" /\ v.kind \in {"object", "array"}
                           THEN Obj([pk \in DOMAIN Entries(v) |->
                                       sanitizeForGemini(Entries(v)[pk])])
                           ELSE IF k = "items" THEN sanitizeForGemini(v)
                           ELSE v]
         IN  \* if (!out.type) out.type = 'object'
             IF "type" \in kept /\ Truthy(out["type"]) THEN Obj(out)
             ELSE Obj([k \in kept \cup {"type"} |->
                         IF k = "type" THEN Prim("object") ELSE out[k]])

(***************************************************************************)
(* Registration of external tools: connectMcpServer, disconnectMcpServer,  *)
(* getMcpTools and the tool list chat() offers to the model.  toolRegistry *)
(* is a function of the sanitized names.                                   *)
(***************************************************************************)
\* Variant: the server and the tool name are joined by one underscore.
NamespacedName_SingleSeparator(server, tool) ==
    sanitizeToolName(server \o <<"_">> \o tool)

\* sanitizeToolName(`${name}__${tool.name}`)
NamespacedName(server, tool) == sanitizeToolName(server \o <<"_", "_">> \o tool)

\* clients.set(name, { client, transport, tools }): an entry of that name
\* keeps its place, a new one goes last.
ClientsSet(cs, entry) ==
    IF \E i \in 1..Len(cs) : cs[i].name = entry.name
    THEN [i \in 1..Len(cs) |-> IF cs[i].name = entry.name THEN entry ELSE cs[i]]
    ELSE Append(cs, entry)

\* clients.delete(serverName)
ClientsDelete(cs, name) ==
    LET Keep(e) == e.name # name IN SelectSeq(cs, Keep)

\* entry.client.close() has been called
ClientsClose(cs, name) ==
    [i \in 1..Len(cs) |->
       IF cs[i].name = name THEN [cs[i] EXCEPT !.closed = TRUE] ELSE cs[i]]

RegistryEntry(server, tool) == [serverName |-> server, originalName |-> tool]

\* Variant: a name that is registered keeps its entry.
RegisterTool_KeepFirst(registry, key, entry) ==
    IF key \in DOMAIN registry THEN registry
    ELSE [n \in DOMAIN registry \cup {key} |->
            IF n = key THEN entry ELSE registry[n]]

\* toolRegistry.set(sanitized, { serverName, originalName })
RegisterTool(registry, key, entry) ==
    [n \in DOMAIN registry \cup {key} |-> IF n = key THEN entry ELSE registry[n]]

\* for (const tool of toolList) toolRegistry.set(...)
RECURSIVE RegisterTools(_, _, _)
RegisterTools(registry, server, toolList) ==
    IF toolList = <<>> THEN registry
    ELSE RegisterTools(RegisterTool(registry, NamespacedName(server, Head(toolList)),
                                    RegistryEntry(server, Head(toolList))),
                       server, Tail(toolList))

\* for (const [toolName, { serverName: sName }] of toolRegistry)
\*   if (sName === serverName) toolRegistry.delete(toolName)
RemoveTools(registry, server) ==
    [n \in {m \in DOMAIN registry : registry[m].serverName # server} |-> registry[n]]

\* The names of the descriptors getMcpTools returns, in its order.
RECURSIVE getMcpTools(_)
getMcpTools(cs) ==
    IF cs = <<>> THEN <<>>
    ELSE [i \in 1..Len(Head(cs).tools) |->
            NamespacedName(Head(cs).name, Head(cs).tools[i])]
         \o getMcpTools(Tail(cs))

\* Names of the built-in tools, spelled out, in the order of the tools array,
\* and the same names as the requests carry them.
BuiltinToolNames ==
    << <<"s", "h", "o", "w", "_", "m", "a", "p">>,
       <<"s", "h", "o", "w", "_", "t", "r", "a", "f", "f", "i", "c">>,
       <<"s", "e", "a", "r", "c", "h", "_", "p", "l", "a", "c", "e", "s">>,
       <<"g", "e", "t", "_", "d", "i", "r", "e", "c", "t", "i", "o", "n", "s">>,
       <<"s", "h", "o", "w", "_", "s", "t", "r", "e", "e", "t", "_", "v", "i", "e", "w">>,
       <<"g", "e", "t", "_", "u", "s", "e", "r", "_", "l", "o", "c", "a", "t", "i", "o", "n">>,
       <<"s", "e", "n", "d", "_", "e", "m", "a", "i", "l">>,
       <<"s", "e", "a", "r", "c", "h", "_", "d", "o", "c", "u", "m", "e", "n", "t", "s">>,
       <<"g", "e", "n", "e", "r", "a", "t", "e", "_", "a", "r", "t", "i", "f", "a", "c", "t">> >>

BuiltinToolTexts ==
    <<"show_map", "show_traffic", "search_places", "get_directions",
      "show_street_view", "get_user_location", "send_email", "search_documents",
      "generate_artifact">>

\* let allTools = [...tools, ...getMcpTools()], filtered by enabledTools if
\* it is an array
allTools(cs, enabled) ==
    LET merged == BuiltinToolNames \o getMcpTools(cs)
        Enabled(t) == \E i \in 1..Len(enabled.items) : enabled.items[i] = t
    IN  IF enabled.isArray THEN SelectSeq(merged, Enabled) ELSE merged

\* The provider and tool callMcpTool calls for a name: reg and entry of
\* callMcpTool, Null when it returns an error before the call.
CallTarget(registry, cs, name) ==
    IF name \notin DOMAIN registry THEN Null
    ELSE IF registry[name].serverName \notin ConnectedServers(cs) THEN Null
    ELSE registry[name]

(***************************************************************************)
(* Function calls the model may request.  A call whose functionCall part   *)
(* carries no args has args = Null.                                        *)
(***************************************************************************)
ArtifactCall(t) == [name |-> "generate_artifact", args |-> [title |-> t, html |-> t]]
MapCall == [name |-> "show_map", args |-> [location |-> "Paris"]]
TrafficCall == [name |-> "show_traffic", args |-> [location |-> "Rome"]]
McpCall == [name |-> McpToolName, args |-> [question |-> "q", needChartData |-> TRUE]]
\* Calls with missing arguments, and a call of a function that does not exist.
MapCallNoArgs == [name |-> "show_map", args |-> Null]
MapCallNoLocation == [name |-> "show_map", args |-> [location |-> Undefined]]
McpCallNoArgs == [name |-> McpToolName, args |-> Null]
UnknownCall == [name |-> "no_such_tool", args |-> [x |-> "y"]]

\* get_user_location with no args part and with {} as args; search_places
\* with and without a location, and with no args part.
EmptyArgs == [query |-> Undefined, location |-> Undefined]
LocationCall == [name |-> "get_user_location", args |-> Null]
LocationCallEmptyArgs == [name |-> "get_user_location", args |-> EmptyArgs]
SearchCall(location) ==
    [name |-> "search_places", args |-> [query |-> "cafe", location |-> location]]
SearchCallNoArgs == [name |-> "search_places", args |-> Null]

\* A location getLocationFromIP found.
Here == [description |-> "Lyon"]

\* Within one request the model requests calls out of one of these sets.
Toolboxes ==
    {{ArtifactCall("A"), ArtifactCall("B")}, {MapCall}, {McpCall, ArtifactCall("A")}}

RECURSIVE SeqsUpTo(_, _)
SeqsUpTo(S, n) ==
    IF n = 0 THEN {<<>>}
    ELSE LET shorter == SeqsUpTo(S, n - 1)
         IN  shorter \cup {Append(s, x) : s \in {t \in shorter : Len(t) = n - 1}, x \in S}

CallLists(calls) == SeqsUpTo(calls, MaxCalls)

ModelResponses(calls) == [text : ReplyTexts, calls : CallLists(calls)]

extractFunctionCalls(resp) == resp.calls

(***************************************************************************)
(* Exceptions.  An expression of the code that throws has the value        *)
(* Thrown(message).                                                        *)
(***************************************************************************)
Thrown(msg) == [thrown |-> msg]
IsThrown(v) == "thrown" \in DOMAIN v

(***************************************************************************)
(* Tool dispatch.  A function result is the object the handlers return;    *)
(* fields the handler does not set are Undefined (strings) or Null.        *)
(***************************************************************************)
FunctionResult(error, message, mapData, artifactData, mcpChartData) ==
    [error |-> error, message |-> message, mapData |-> mapData,
     artifactData |-> artifactData, mcpChartData |-> mcpChartData]

ErrorResult(msg) == FunctionResult(msg, Undefined, Null, Null, Null)

\* What the external service behind a built-in handler can do: geocode()
\* finds the place or finds nothing (it catches its own failures); a
\* location that is undefined is never found.
BuiltinOutcomes(call) ==
    IF call.name \in {"show_map", "show_traffic"}
    THEN IF call.args # Null /\ call.args.location # Undefined
         THEN {"found", "notfound"} ELSE {"notfound"}
    ELSE IF call.name = "search_places"
    THEN {"found", "notfound", "throws"}
    ELSE {"none"}

\* The switch of executeFunctionCall: reading a property of args throws a
\* TypeError when the call has no args.
Handler(name, args, userLocation, outcome) ==
    CASE name \in {"show_map", "show_traffic"} ->
             IF args = Null THEN Thrown("Cannot read properties of undefined")
             ELSE IF outcome = "notfound"
             THEN ErrorResult("Could not find location")
             ELSE FunctionResult(Undefined, "Showing map",
                                 [type |-> IF name = "show_map" THEN "map" ELSE "traffic",
                                  title |-> args.location],
                                 Null, Null)
      [] name = "generate_artifact" ->
             IF args = Null THEN Thrown("Cannot read properties of undefined")
             ELSE FunctionResult(Undefined, "Generated artifact", Null,
                                 [title |-> args.title, html |-> args.html], Null)
      [] name = "get_user_location" ->
             IF userLocation = Null
             THEN FunctionResult(Undefined, "Unable to determine user location",
                                 Null, Null, Null)
             ELSE FunctionResult(Undefined, "User is located near",
                                 [type |-> "map", title |-> userLocation.description],
                                 Null, Null)
      [] name = "search_places" ->
             \* geocode(args.location) finds no coordinates ("notfound");
             \* searchPlaces throws ("throws")
             IF args = Null THEN Thrown("Cannot read properties of undefined")
             ELSE IF TruthyStr(args.location)
             THEN IF outcome = "notfound" THEN ErrorResult("Could not find location")
                  ELSE IF outcome = "throws" THEN Thrown("searchPlaces failed")
                  ELSE FunctionResult(Undefined, "Found places",
                                      [type |-> "places", title |-> args.location],
                                      Null, Null)
             ELSE IF userLocation # Null
             THEN IF outcome = "throws" THEN Thrown("searchPlaces failed")
                  ELSE FunctionResult(Undefined, "Found places",
                                      [type |-> "places",
                                       title |-> userLocation.description],
                                      Null, Null)
             ELSE ErrorResult("No location specified and user location unavailable")
      [] OTHER -> ErrorResult("Unknown function")

\* Variant: no try/catch around the switch.
executeFunctionCall_NoCatch(name, args, userLocation, outcome) ==
    Handler(name, args, userLocation, outcome)

\* try { switch ... } catch (error) { return { error: error.message } }
executeFunctionCall(name, args, userLocation, outcome) ==
    LET r == Handler(name, args, userLocation, outcome)
    IN  IF IsThrown(r) THEN ErrorResult(r.thrown) ELSE r

(***************************************************************************)
(* Structured data an external tool may return (answers[0].chartData), by  *)
(* what buildMcpDataArtifact looks at:                                     *)
(*   charts   absent, not an array, an empty array, or an array whose      *)
(*            first entry is null, a grid, a chart, an entry of another    *)
(*            type with data, or an entry of another type without data;    *)
(*   type     truthy or not;                                               *)
(*   data     absent, an object with a datasets array, an array of rows,   *)
(*            an array of rows with a null entry, or another object;       *)
(*   headers  absent, an array, or a string;                               *)
(*   columns  absent, an array, or an object that is not an array;         *)
(*   rows     absent, an array, an array with a null entry, or an object   *)
(*            that is not an array.                                        *)
(***************************************************************************)
ChartDataShapes ==
    [charts : {"absent", "notArray", "empty", "nullFirst", "grid", "chart",
               "dataOnly", "other"},
     type : BOOLEAN,
     data : {"absent", "datasets", "array", "arrayWithNull", "object"},
     headers : {"absent", "array", "string"},
     columns : {"absent", "array", "object"},
     rows : {"absent", "array", "arrayWithNull", "object"}]

NoChartFields ==
    [charts |-> "absent", type |-> FALSE, data |-> "absent", headers |-> "absent",
     columns |-> "absent", rows |-> "absent"]

\* A Chart.js configuration, and a container whose first chart is null.
ChartJsData == [NoChartFields EXCEPT !.type = TRUE, !.data = "datasets"]
MalformedChartData == [NoChartFields EXCEPT !.charts = "nullFirst"]

\* What the provider behind an external tool can do: report an error flag,
\* throw (also on timeout), answer with text that is not JSON, or answer
\* with JSON carrying chart data, well-formed or not.
McpOutcomes == {"isError", "throws", "plain", "chart", "malformed"}

isMcpTool(registry, name) == name \in DOMAIN registry

\* Answers whose text is not JSON, by what the scan of the catch block
\* looks for: no fenced JSON block and no HTML table ("plain"); a fenced
\* block that parses to an object with charts, data, rows or headers
\* ("block"), to an object without them ("blockNoData"), to null
\* ("blockNull"), or that does not parse ("blockInvalid"); an HTML table
\* ("table"); a block and a table.
TextOutcomes ==
    {"plain", "block", "blockNoData", "blockNull", "blockInvalid", "table",
     "blockAndTable", "blockInvalidAndTable"}

\* What the scan makes of a block with data and of a table: the parsed
\* block, and { html, type: 'table' }.
BlockData == [NoChartFields EXCEPT !.rows = "array"]
HtmlTableData == [NoChartFields EXCEPT !.type = TRUE]

\* Variant: the text is scanned whatever the call asks for.
ScanDecision_Always(originalName, args) == "scan"

\* if (originalName === 'ask_agent' && args.needChartData): reading the
\* property of args throws when the call has no args.
ScanDecision(originalName, args) ==
    IF originalName # "ask_agent" THEN "skip"
    ELSE IF args = Null THEN "throws"
    ELSE IF args.needChartData THEN "scan" ELSE "skip"

\* The fenced block first; the table if there is one and the block gave
\* nothing.
ExtractEmbedded(outcome) ==
    IF outcome \in {"block", "blockAndTable"} THEN BlockData
    ELSE IF outcome \in {"table", "blockInvalidAndTable"} THEN HtmlTableData
    ELSE Null

\* The text is not JSON: the catch block of JSON.parse reads
\* args.needChartData, inside the outer try.
callMcpTool(registry, connected, name, args, outcome) ==
    IF name \notin DOMAIN registry THEN ErrorResult("Unknown MCP tool")
    ELSE IF registry[name].serverName \notin connected
    THEN ErrorResult("MCP server not connected")
    ELSE CASE outcome = "isError" -> ErrorResult("Unknown MCP tool error")
           [] outcome = "throws" -> ErrorResult("MCP tool error")
           [] outcome \in TextOutcomes ->
                  LET decision == ScanDecision(registry[name].originalName, args)
                  IN  IF decision = "throws" THEN ErrorResult("MCP tool error")
                      ELSE FunctionResult(Undefined, Undefined, Null, Null,
                                          IF decision = "scan"
                                          THEN ExtractEmbedded(outcome) ELSE Null)
           [] outcome = "chart" ->
                  FunctionResult(Undefined, Undefined, Null, Null, ChartJsData)
           [] OTHER ->
                  FunctionResult(Undefined, Undefined, Null, Null, MalformedChartData)

\* toolName.split('__'), last part.
LastPart(toolName) == IF toolName = McpToolName THEN "ask_agent" ELSE toolName

\* The artifacts buildMcpDataArtifact returns: a grid, a chart, or an HTML
\* document that is a Chart.js page, a table or pretty-printed JSON.
DataArtifact(title, type, html) == [title |-> title, type |-> type, html |-> html]

\* const headers = chartData?.headers || chartData?.columns?.map(...) || null
HeadersOf(cd) ==
    IF cd.headers # "absent" THEN cd.headers
    ELSE IF cd.columns = "array" THEN "array"
    ELSE IF cd.columns = "object" THEN "throws"
    ELSE "absent"

\* const rows = chartData?.rows || chartData?.data || null
RowsOf(cd) ==
    IF cd.rows # "absent" THEN cd.rows
    ELSE IF cd.data \in {"array", "arrayWithNull"} THEN cd.data
    ELSE IF cd.data \in {"datasets", "object"} THEN "object"
    ELSE "absent"

\* The table branch: headers.map(...) and Object.values(r) for every row.
TableArtifact(label, headers, rows) ==
    IF headers = "string" \/ rows = "arrayWithNull"
    THEN Thrown("TypeError")
    ELSE DataArtifact(<<label, "Data">>, "html", "table")

\* Variant: the table matcher is tried before the Chart.js matcher.
buildMcpDataArtifact_TableFirst(toolName, cd) ==
    LET label == LastPart(toolName)
    IN  IF cd.charts = "nullFirst" THEN Thrown("TypeError")
        ELSE IF cd.charts = "grid"
        THEN DataArtifact(<<label, "Analysis">>, "grid", "none")
        ELSE IF cd.charts \in {"chart", "dataOnly"}
        THEN DataArtifact(<<label, "Analysis">>, "chart", "none")
        ELSE IF HeadersOf(cd) = "throws" THEN Thrown("TypeError")
        ELSE IF HeadersOf(cd) # "absent" \/ RowsOf(cd) # "absent"
        THEN TableArtifact(label, HeadersOf(cd), RowsOf(cd))
        ELSE IF cd.type /\ cd.data = "datasets"
        THEN DataArtifact(<<label, "Chart">>, "html", "chartjs")
        ELSE DataArtifact(<<label, "Data">>, "html", "json")

buildMcpDataArtifact(toolName, cd) ==
    LET label == LastPart(toolName)
    IN  IF cd.charts = "nullFirst" THEN Thrown("TypeError")
        ELSE IF cd.charts = "grid"
        THEN DataArtifact(<<label, "Analysis">>, "grid", "none")
        ELSE IF cd.charts \in {"chart", "dataOnly"}
        THEN DataArtifact(<<label, "Analysis">>, "chart", "none")
        ELSE IF cd.type /\ cd.data = "datasets"
        THEN DataArtifact(<<label, "Chart">>, "html", "chartjs")
        ELSE IF HeadersOf(cd) = "throws" THEN Thrown("TypeError")
        ELSE IF HeadersOf(cd) # "absent" \/ RowsOf(cd) # "absent"
        THEN TableArtifact(label, HeadersOf(cd), RowsOf(cd))
        ELSE DataArtifact(<<label, "Data">>, "html", "json")

\* `Map: ${args.location || ''}` and the like.
getLabelForFunction(name, args) ==
    CASE name = "show_map" ->
             IF args = Null THEN Thrown("TypeError") ELSE <<"Map: ", args.location>>
      [] name = "show_traffic" ->
             IF args = Null THEN Thrown("TypeError") ELSE <<"Traffic: ", args.location>>
      [] name = "search_places" ->
             IF args = Null THEN Thrown("TypeError")
             ELSE <<"Search: ", IF TruthyStr(args.query) THEN args.query ELSE "Places">>
      [] name = "get_user_location" -> <<"Your Location">>
      [] OTHER -> <<name>>

\* The label of a tool_call event: names of external tools are split at
\* '__', the built-in cases read a property of args.
describeStep(name, args) ==
    IF name = McpToolName THEN [label |-> "Called ask_agent on srv"]
    ELSE IF name \in {"show_map", "show_traffic", "generate_artifact", "search_places"}
    THEN IF args = Null THEN Thrown("Cannot read properties of undefined")
         ELSE [label |-> name]
    ELSE [label |-> "Running"]

(***************************************************************************)
(* State of one request.                                                   *)
(***************************************************************************)
VARIABLES
    \* configuration read by chat()
    maxSteps, maxRetries, enabledTools,
    \* the calls the model requests in this request
    toolbox,
    \* the process-wide registry of mcpClient.js
    clients, toolRegistry,
    \* clients and toolRegistry as they were when the dispatch in flight
    \* started (callMcpTool reads them before its await)
    dispatchView,
    \* position of the request: the await it is suspended at, or the
    \* statement of chat() it is about to execute
    pc,
    \* locals of chat()
    allMapData, artifactDataRef, totalSteps, success1, response, retriesLeft,
    searchResults, mapData, replyText, result,
    \* locals of the running runReActLoop(); when it has returned, loopResponse,
    \* stepCount and successfulCalls are the fields of the object it returned
    loopResponse, functionCalls, stepCount, successfulCalls, callIdx,
    \* observers of the request's calls and events
    attempts, modelCalls, attemptModelCalls, groundingCalls, summaryCalls,
    announced, executed, replyLog, firstArtifact, lastArtifact, anySucceeded,
    initialRequestedCalls, finalReplyEmpty, returnedWithCalls,
    \* the step callback chat() was given (TRUE) or null (FALSE)
    onStep,
    \* the userLocation argument of chat(): Null or a location
    userLocation,
    \* functionResponses of the running round, and the message the chat
    \* session's model call in flight carries
    functionResponses, sentMessage,
    \* the route handler of routes/chat.js: done and error events written to
    \* the caller, and the statement whose exception ended the request
    doneEvents, delivered, errorEvents, errorSource,
    \* more observers: the grounded call failed, a call returned structured
    \* chart data, and the calls that returned a visual payload, in order
    groundingFailed, anyChartData, payloadLog,
    \* input and output of buildMcpDataArtifact when it is studied alone
    chartData, artifact,
    \* the events of the running dispatch round in order (tool_call and
    \* tool_result events written to the caller, start and return of each
    \* dispatch), and the kind of the event written to the caller last
    roundEvents, lastEvent,
    \* sanitizeToolName studied alone: the name given and the results of
    \* applying the function to it once and again
    toolName, sanitized,
    \* sanitizeForGemini studied alone: the inputSchema of a tool and the
    \* parameters getMcpTools makes of it
    inputSchema, parameters,
    \* callMcpTool studied alone: the call with the answer of the provider,
    \* and the function result
    mcpRequest, mcpResult,
    \* calls of connectMcpServer and disconnectMcpServer in flight, the
    \* entry each registered name was given last, and the provider and
    \* tool the last dispatch of an external tool called
    ops, lastRegistered, invoked,
    \* the responses the request received, when they are recorded
    responseLog,
    \* the request-scoped values of a second request that is suspended at
    \* an await while this one runs, Null when there is none
    other

configVars == <<maxSteps, maxRetries, enabledTools, toolbox, onStep, userLocation>>
msgVars == <<functionResponses, sentMessage>>
routeVars == <<doneEvents, delivered, errorEvents, errorSource>>
outcomeVars == <<groundingFailed, anyChartData, payloadLog>>
classifyVars == <<chartData, artifact>>
eventVars == <<roundEvents, lastEvent>>
nameVars == <<toolName, sanitized>>
schemaVars == <<inputSchema, parameters>>
scanVars == <<mcpRequest, mcpResult>>
adminVars == <<ops, lastRegistered, invoked>>
studyVars == <<nameVars, schemaVars, scanVars, adminVars, other>>
regVars == <<clients, toolRegistry>>
chatVars == <<allMapData, artifactDataRef, totalSteps, success1, response,
              retriesLeft, searchResults, mapData, replyText, result>>
loopVars == <<loopResponse, functionCalls, stepCount, successfulCalls, callIdx>>
obsVars == <<attempts, modelCalls, attemptModelCalls, groundingCalls,
             summaryCalls, announced, executed, replyLog, firstArtifact,
             lastArtifact, anySucceeded, initialRequestedCalls, finalReplyEmpty,
             returnedWithCalls>>
vars == <<configVars, regVars, pc, chatVars, loopVars, obsVars, msgVars, routeVars,
          outcomeVars, classifyVars, eventVars, studyVars, dispatchView, responseLog>>

\* enabledTools as sent by the caller: not an array, or an array of names.
EnabledToolsChoices ==
    {[isArray |-> FALSE, items |-> <<>>],
     [isArray |-> TRUE, items |-> <<>>],
     [isArray |-> TRUE, items |-> <<"web_search">>]}

Includes(arr, x) == \E i \in 1..Len(arr) : arr[i] = x

webSearchEnabled ==
    ~enabledTools.isArray \/ Includes(enabledTools.items, "web_search")

\* Of a response, chat() and the loop's return value use the text only.
TextOf(resp) == [text |-> resp.text]

NoResponse == [text |-> EmptyText]

\* Messages sent to the model through the chat session: the user message,
\* the retry prompt, the function responses of a round (the names of the
\* calls they answer, in order), the summary prompt.
Message(kind, responses) == [kind |-> kind, responses |-> responses]
NoMessage == Message("none", <<>>)

\* The record of the responses a request received: the text of each model
\* response chat() takes its reply from, and each function result with its
\* call, whether the call is the first of its round, and the step index
\* (globalStep) of the round.  Nothing is recorded when the record is off.
NoLog == [on |-> FALSE, entries |-> <<>>]
EmptyLog == [on |-> TRUE, entries |-> <<>>]
Logged(log, entry) ==
    IF log.on THEN [log EXCEPT !.entries = Append(@, entry)] ELSE log
TextEntry(text) == [kind |-> "text", text |-> text]
ToolEntry(call, fr, idx, step) ==
    [kind |-> "tool", call |-> call, fr |-> fr, first |-> (idx = 1), step |-> step]

\* chat() up to the first sendMessage of the initial runReActLoop.
RequestStart ==
    /\ pc \in {"awaitModel", "classify", "sanitize", "normalize", "callTool",
               "registry", "listing"}
    /\ functionResponses = <<>>
    /\ sentMessage = Message("user", <<>>)
    /\ doneEvents = 0
    /\ delivered = Null
    /\ errorEvents = 0
    /\ errorSource = "none"
    /\ groundingFailed = FALSE
    /\ anyChartData = FALSE
    /\ payloadLog = <<>>
    /\ artifact = Null
    /\ allMapData = <<>>
    /\ artifactDataRef = Null
    /\ totalSteps = 0
    /\ success1 = 0
    /\ response = NoResponse
    /\ retriesLeft = maxRetries
    /\ searchResults = Null
    /\ mapData = Null
    /\ replyText = EmptyText
    /\ result = Null
    /\ loopResponse = NoResponse
    /\ functionCalls = <<>>
    /\ stepCount = 0
    /\ successfulCalls = 0
    /\ callIdx = 0
    /\ attempts = 1
    /\ modelCalls = 1
    /\ attemptModelCalls = 1
    /\ groundingCalls = 0
    /\ summaryCalls = 0
    /\ announced = 0
    /\ executed = 0
    /\ replyLog = <<>>
    /\ firstArtifact = Null
    /\ lastArtifact = Null
    /\ anySucceeded = FALSE
    /\ initialRequestedCalls = FALSE
    /\ finalReplyEmpty = FALSE
    /\ returnedWithCalls = FALSE
    /\ roundEvents = <<>>
    /\ lastEvent = "none"
    /\ dispatchView = Null

\* Nothing is studied alone.
NameIdle == toolName = <<>> /\ sanitized = <<>>
SchemaIdle == inputSchema = JsNull /\ parameters = JsNull
ScanIdle == mcpRequest = Null /\ mcpResult = Null

\* The calls of connectMcpServer and disconnectMcpServer that can be in
\* flight together, and a call that is not in flight.
AdminOps == {"op1", "op2"}
IdleOp == [kind |-> "idle"]
AdminIdle ==
    /\ ops = [o \in AdminOps |-> IdleOp]
    /\ lastRegistered = <<>>
    /\ invoked = Null

\* One request, whose responses are not recorded.
PairIdle == responseLog = NoLog /\ other = Null

StudyIdle == NameIdle /\ SchemaIdle /\ ScanIdle /\ AdminIdle /\ PairIdle

\* A request of the chat route: the route always passes a step callback.
Init ==
    /\ maxSteps \in 0..MaxStepsBound
    /\ maxRetries \in 0..MaxRetriesBound
    /\ enabledTools \in EnabledToolsChoices
    /\ toolbox \in Toolboxes
    /\ onStep = TRUE
    /\ userLocation = Null
    /\ clients = InitialClients
    /\ toolRegistry = InitialToolRegistry
    /\ RequestStart
    /\ pc = "awaitModel"
    /\ chartData = Null
    /\ StudyIdle

(***************************************************************************)
(* runReActLoop                                                            *)
(***************************************************************************)
\* Variants of the loop test: one round too many, no step limit, and a step
\* budget shared by the attempts of a request.
ReActLoopGuard_OffByOne(calls, count, limit) == Len(calls) > 0 /\ count <= limit

ReActLoopGuard_NoLimit(calls, count, limit) == Len(calls) > 0

ReActLoopGuard_SharedBudget(calls, count, limit) ==
    Len(calls) > 0 /\ totalSteps + count < limit

\* while (functionCalls && functionCalls.length > 0 && stepCount < maxSteps)
ReActLoopGuard(calls, count, limit) == Len(calls) > 0 /\ count < limit

\* chatSession.sendMessage(...) returns inside runReActLoop: the response is
\* inspected and the loop either enters a dispatch round or returns.
ModelResponds ==
    /\ pc = "awaitModel"
    /\ functionResponses' = <<>>
    /\ sentMessage' = NoMessage
    /\ roundEvents' = <<>>
    /\ UNCHANGED <<routeVars, outcomeVars, classifyVars, lastEvent, studyVars,
                   dispatchView>>
    /\ \E r \in ModelResponses(toolbox) :
         /\ IF ReActLoopGuard(extractFunctionCalls(r), stepCount, maxSteps)
            THEN \* the response is overwritten after the round, unread
                 /\ functionCalls' = extractFunctionCalls(r)
                 /\ loopResponse' = NoResponse
                 /\ stepCount' = stepCount + 1
                 /\ callIdx' = 1
                 /\ returnedWithCalls' = FALSE
                 /\ pc' = "toolCall"
                 /\ UNCHANGED responseLog
            ELSE \* return { response, totalSteps: stepCount, successfulCalls }:
                 \* the calls the response requests are not part of it
                 /\ functionCalls' = <<>>
                 /\ loopResponse' = TextOf(r)
                 /\ callIdx' = 0
                 /\ returnedWithCalls' = (Len(extractFunctionCalls(r)) > 0)
                 /\ pc' = "loopReturned"
                 /\ responseLog' = Logged(responseLog, TextEntry(r.text))
                 /\ UNCHANGED stepCount
         /\ initialRequestedCalls' =
                IF modelCalls = 1 THEN Len(extractFunctionCalls(r)) > 0
                ELSE initialRequestedCalls
    /\ announced' = 0
    /\ executed' = 0
    /\ UNCHANGED <<configVars, regVars, chatVars, successfulCalls, attempts,
                   modelCalls, attemptModelCalls, groundingCalls, summaryCalls,
                   replyLog, firstArtifact, lastArtifact, anySucceeded,
                   finalReplyEmpty>>

\* Variant: the failure is caught in the loop, which returns an empty
\* response.
ModelFails_Swallowed ==
    /\ pc = "awaitModel"
    /\ errorSource' = "sendMessage"
    /\ loopResponse' = NoResponse
    /\ pc' = "loopReturned"
    /\ UNCHANGED <<configVars, regVars, chatVars, functionCalls, stepCount,
                   successfulCalls, callIdx, obsVars, msgVars, doneEvents, delivered,
                   errorEvents, outcomeVars, classifyVars, eventVars, studyVars, responseLog,
                   dispatchView>>

\* chatSession.sendMessage(...) rejects inside runReActLoop: nothing catches
\* it, chat() rejects and the route's catch block writes the error event.
ModelFails ==
    /\ pc = "awaitModel"
    /\ errorEvents' = errorEvents + 1
    /\ errorSource' = "sendMessage"
    /\ lastEvent' = "error"
    /\ UNCHANGED <<doneEvents, delivered, msgVars, outcomeVars, classifyVars, roundEvents, studyVars, responseLog,
                   dispatchView>>
    /\ pc' = "error"
    /\ UNCHANGED <<configVars, regVars, chatVars, loopVars, obsVars>>

\* An exception leaves runReActLoop and chat(): the route's catch block
\* writes the error event and the request ends.
Abort(source) ==
    /\ pc' = "error"
    /\ errorEvents' = errorEvents + 1
    /\ errorSource' = source
    /\ lastEvent' = "error"
    /\ UNCHANGED <<configVars, regVars, chatVars, loopVars, obsVars, msgVars,
                   doneEvents, delivered, outcomeVars, classifyVars, roundEvents, studyVars, responseLog,
                   dispatchView>>

\* Events of a dispatch round as they are observed.
Event(type, name) == [type |-> type, name |-> name]

\* onStep?.(event): the caller is written a step event if chat() was given
\* a callback.
WriteStepEvents(last, k) == IF onStep /\ k > 0 THEN "step" ELSE last

\* Variant: the dispatch of a call starts before its tool_call event.
LogToolCall_AfterDispatch(log, call) ==
    log \o <<Event("dispatch", call.name)>>
        \o (IF onStep THEN <<Event("tool_call", call.name)>> ELSE <<>>)

\* onStep?.({ type: 'tool_call', ... }), then the dispatch of the call starts.
LogToolCall(log, call) ==
    log \o (IF onStep THEN <<Event("tool_call", call.name)>> ELSE <<>>)
        \o <<Event("dispatch", call.name)>>

\* The dispatch has returned; onStep?.({ type: 'tool_result', ... }) at the
\* end of the for-body.
LogToolResult(log, call) ==
    log \o <<Event("returned", call.name)>>
        \o (IF onStep THEN <<Event("tool_result", call.name)>> ELSE <<>>)

\* What a dispatch reads of the registry when it starts.
RegistryView == [registry |-> toolRegistry, clients |-> clients]

\* Top of the for-body: with a step callback its argument is evaluated,
\* describeStep included, and the tool_call event is emitted; then the call
\* is handed to its handler.
EmitToolCall ==
    /\ pc = "toolCall"
    /\ LET call == functionCalls[callIdx]
       IN  IF onStep /\ IsThrown(describeStep(call.name, call.args))
           THEN Abort("describeStep")
           ELSE /\ announced' = IF onStep THEN announced + 1 ELSE announced
                /\ roundEvents' = LogToolCall(roundEvents, call)
                /\ lastEvent' = WriteStepEvents(lastEvent, 1)
                /\ dispatchView' = RegistryView
                /\ pc' = "awaitTool"
                /\ UNCHANGED <<configVars, regVars, chatVars, loopVars, attempts,
                               modelCalls, attemptModelCalls, groundingCalls,
                               summaryCalls, executed, replyLog, firstArtifact,
                               lastArtifact, anySucceeded, initialRequestedCalls,
                               finalReplyEmpty, returnedWithCalls, msgVars,
                               routeVars, outcomeVars, classifyVars, studyVars, responseLog>>

\* Variant: the call of an external tool that is not registered throws.
DispatchResultsIn_ThrowsWhenGone(view, call) ==
    IF isMcpTool(view.registry, call.name)
    THEN {callMcpTool(view.registry, ConnectedServers(view.clients), call.name,
                      call.args, o) : o \in McpOutcomes}
    ELSE IF call.name = McpToolName THEN {Thrown("Provider unavailable")}
    ELSE {executeFunctionCall(call.name, call.args, Null, o) : o \in BuiltinOutcomes(call)}

\* Variant: the built-in handlers are given the location of the request.
DispatchResultsIn_PassesLocation(view, call) ==
    IF isMcpTool(view.registry, call.name)
    THEN {callMcpTool(view.registry, ConnectedServers(view.clients), call.name,
                      call.args, o) : o \in McpOutcomes}
    ELSE {executeFunctionCall(call.name, call.args, userLocation, o) :
             o \in BuiltinOutcomes(call)}

\* Variant: a call whose name the enable list excludes is refused.
DispatchResultsIn_EnabledOnly(view, call) ==
    IF enabledTools.isArray /\ ~Includes(enabledTools.items, call.name)
    THEN {ErrorResult("Tool not enabled")}
    ELSE IF isMcpTool(view.registry, call.name)
    THEN {callMcpTool(view.registry, ConnectedServers(view.clients), call.name,
                      call.args, o) : o \in McpOutcomes}
    ELSE {executeFunctionCall(call.name, call.args, Null, o) : o \in BuiltinOutcomes(call)}

\* The results the dispatch of a call can produce, given what it read of the
\* registry when it started: isMcpTool(call.name) ? callMcpTool(...) :
\* executeFunctionCall(...).  What callTool does on a client whose close()
\* is in flight is the provider library's affair: any outcome.
DispatchResultsIn(view, call) ==
    IF isMcpTool(view.registry, call.name)
    THEN {callMcpTool(view.registry, ConnectedServers(view.clients), call.name,
                      call.args, o) : o \in McpOutcomes}
    ELSE {executeFunctionCall(call.name, call.args, Null, o) : o \in BuiltinOutcomes(call)}

\* The results of a dispatch that starts now.
DispatchResults(call) == DispatchResultsIn(RegistryView, call)

\* if (!functionResult.error) successfulCalls++
CountSuccess(count, fr) == IF ~TruthyStr(fr.error) THEN count + 1 ELSE count

\* Variant: a new payload is put in front of the earlier ones.
PushMapData_Prepend(maps, call, fr) ==
    IF TruthyObj(fr.mapData)
    THEN <<[label |-> getLabelForFunction(call.name, call.args),
            mapData |-> fr.mapData]>> \o maps
    ELSE maps

\* if (functionResult.mapData) allMapData.push({label, mapData})
PushMapData(maps, call, fr) ==
    IF TruthyObj(fr.mapData)
    THEN Append(maps, [label |-> getLabelForFunction(call.name, call.args),
                       mapData |-> fr.mapData])
    ELSE maps

\* Variant: a ready-made artifact does not replace an artifact already held.
UpdateArtifact_KeepFirst(ref, call, fr) ==
    LET afterReady == IF TruthyObj(fr.artifactData) /\ ~TruthyObj(ref)
                      THEN fr.artifactData ELSE ref
    IN  IF TruthyObj(fr.mcpChartData) /\ ~TruthyObj(afterReady)
        THEN buildMcpDataArtifact(call.name, fr.mcpChartData)
        ELSE afterReady

\* Variant: an artifact built from chart data replaces the artifact held.
UpdateArtifact_DerivedReplaces(ref, call, fr) ==
    LET afterReady == IF TruthyObj(fr.artifactData) THEN fr.artifactData ELSE ref
    IN  IF TruthyObj(fr.mcpChartData)
        THEN buildMcpDataArtifact(call.name, fr.mcpChartData)
        ELSE afterReady

\* Variant: an artifact built from chart data is emitted and not stored.
UpdateArtifact_DerivedNotStored(ref, call, fr) ==
    IF TruthyObj(fr.artifactData) THEN fr.artifactData ELSE ref

\* The value of artifactDataRef.value after one function result, or the
\* exception of buildMcpDataArtifact.
UpdateArtifact(ref, call, fr) ==
    LET afterReady == IF TruthyObj(fr.artifactData) THEN fr.artifactData ELSE ref
    IN  IF TruthyObj(fr.mcpChartData) /\ ~TruthyObj(afterReady)
        THEN buildMcpDataArtifact(call.name, fr.mcpChartData)
        ELSE afterReady

\* Variant: a failed call gets no function response.
PushResponse_SkipsFailures(responses, call, fr) ==
    IF TruthyStr(fr.error) THEN responses ELSE Append(responses, call.name)

\* functionResponses.push({ functionResponse: { name: call.name, response } })
PushResponse(responses, call, fr) == Append(responses, call.name)

\* The artifact events of the for-body: one when an artifact is built from
\* chart data, one when the result carries a ready-made artifact.
ArtifactEvents(ref, fr) ==
    (IF TruthyObj(fr.mcpChartData) /\ ~TruthyObj(fr.artifactData) /\ ref = Null
     THEN 1 ELSE 0)
    + (IF TruthyObj(fr.artifactData) THEN 1 ELSE 0)

\* Variant: the step index is the round of the attempt.
globalStep_NoOffset(stepOffset, count) == count

\* const globalStep = stepOffset + stepCount; stepOffset is 0 in the initial
\* attempt and totalSteps in a retry, where totalSteps is 0 up to the return
\* of the initial attempt.
globalStep(stepOffset, count) == stepOffset + count

\* The rest of the for-body after a dispatch that returned fr, then either
\* the next call or the function responses are sent to the model.
ForBody(call, fr) ==
    /\ successfulCalls' = CountSuccess(successfulCalls, fr)
    /\ allMapData' = PushMapData(allMapData, call, fr)
    /\ payloadLog' = IF TruthyObj(fr.mapData) THEN Append(payloadLog, call)
                     ELSE payloadLog
    /\ artifactDataRef' = UpdateArtifact(artifactDataRef, call, fr)
    /\ firstArtifact' = IF firstArtifact = Null /\ TruthyObj(fr.artifactData)
                        THEN fr.artifactData ELSE firstArtifact
    /\ lastArtifact' = IF TruthyObj(fr.artifactData)
                       THEN fr.artifactData ELSE lastArtifact
    /\ anyChartData' = (anyChartData \/ TruthyObj(fr.mcpChartData))
    /\ anySucceeded' = (anySucceeded \/ ~TruthyStr(fr.error))
    /\ executed' = executed + 1
    /\ dispatchView' = Null
    /\ responseLog' = Logged(responseLog,
                             ToolEntry(call, fr, callIdx, globalStep(totalSteps, stepCount)))
    /\ roundEvents' = LogToolResult(roundEvents, call)
    /\ lastEvent' = WriteStepEvents(lastEvent, ArtifactEvents(artifactDataRef, fr) + 1)
    /\ IF callIdx < Len(functionCalls)
       THEN /\ callIdx' = callIdx + 1
            /\ functionResponses' = PushResponse(functionResponses, call, fr)
            /\ pc' = "toolCall"
            /\ UNCHANGED <<functionCalls, modelCalls, attemptModelCalls,
                           sentMessage>>
       ELSE \* sendMessage(functionResponses); functionCalls is assigned anew
            \* when it returns
            /\ callIdx' = 0
            /\ functionCalls' = <<>>
            /\ functionResponses' = <<>>
            /\ sentMessage' = Message("functionResponses",
                                      PushResponse(functionResponses, call, fr))
            /\ pc' = "awaitModel"
            /\ modelCalls' = modelCalls + 1
            /\ attemptModelCalls' = attemptModelCalls + 1
    /\ UNCHANGED <<configVars, regVars, totalSteps, success1, response, retriesLeft,
                   searchResults, mapData, replyText, result, loopResponse,
                   stepCount, attempts, groundingCalls, summaryCalls, announced,
                   replyLog, initialRequestedCalls, finalReplyEmpty,
                   returnedWithCalls, routeVars, groundingFailed, classifyVars,
                   studyVars>>

\* The dispatch of the current call returns or throws; when it returned,
\* the for-body goes on and buildMcpDataArtifact may throw.
ToolReturns ==
    /\ pc = "awaitTool"
    /\ LET call == functionCalls[callIdx]
       IN  \E fr \in DispatchResultsIn(dispatchView, call) :
             IF IsThrown(fr) THEN Abort("dispatch")
             ELSE IF IsThrown(UpdateArtifact(artifactDataRef, call, fr))
             THEN Abort("buildMcpDataArtifact")
             ELSE ForBody(call, fr)

(***************************************************************************)
(* chat                                                                    *)
(***************************************************************************)
\* Variants of the reflexion test: one retry too many, no retry budget, no
\* look at the reply text, and no look at the success count.
ReflexionGuard_OffByOne(left, firstSuccess, text) ==
    left >= 0 /\ firstSuccess = 0 /\ isUnsatisfactoryResponse(text)

ReflexionGuard_NoBudget(left, firstSuccess, text) ==
    firstSuccess = 0 /\ isUnsatisfactoryResponse(text)

ReflexionGuard_IgnoresText(left, firstSuccess, text) ==
    left > 0 /\ firstSuccess = 0

ReflexionGuard_IgnoresSuccess(left, firstSuccess, text) ==
    left > 0 /\ isUnsatisfactoryResponse(text)

\* while (retriesLeft > 0 && success1 === 0 && isUnsatisfactoryResponse(response.text()))
ReflexionGuard(left, firstSuccess, text) ==
    left > 0 /\ firstSuccess = 0 /\ isUnsatisfactoryResponse(text)

\* runReActLoop returned to chat(): the destructuring assignment, the
\* statements after it and the test of the reflexion loop.  Either a retry
\* attempt is started (fresh locals, the retry message is sent) or the loop
\* is left; the locals of the returned call are gone in both cases.
LoopReturned ==
    /\ pc = "loopReturned"
    /\ UNCHANGED <<functionResponses, routeVars, outcomeVars, classifyVars,
                   roundEvents, studyVars, responseLog,
                   dispatchView>>
    /\ LET firstSuccess == IF attempts = 1 THEN successfulCalls ELSE success1
           left == IF attempts = 1 THEN retriesLeft ELSE retriesLeft - 1
       IN  /\ totalSteps' = totalSteps + stepCount
           /\ success1' = firstSuccess
           /\ retriesLeft' = left
           /\ IF ReflexionGuard(left, firstSuccess, loopResponse.text)
              THEN \* response is assigned anew when the retry returns,
                   \* before it is read
                   /\ response' = NoResponse
                   /\ attempts' = attempts + 1
                   /\ modelCalls' = modelCalls + 1
                   /\ attemptModelCalls' = 1
                   /\ sentMessage' = Message("retry", <<>>)
                   /\ lastEvent' = WriteStepEvents(lastEvent, 1)
                   /\ pc' = "awaitModel"
                   /\ UNCHANGED finalReplyEmpty
              ELSE /\ response' = loopResponse
                   /\ finalReplyEmpty' = (loopResponse.text.raw = 0)
                   /\ sentMessage' = NoMessage
                   /\ pc' = "grounding"
                   /\ UNCHANGED <<attempts, modelCalls, attemptModelCalls,
                                  lastEvent>>
    /\ replyLog' = Append(replyLog, isUnsatisfactoryResponse(loopResponse.text))
    /\ loopResponse' = NoResponse
    /\ functionCalls' = <<>>
    /\ stepCount' = 0
    /\ successfulCalls' = 0
    /\ announced' = 0
    /\ executed' = 0
    /\ returnedWithCalls' = FALSE
    /\ UNCHANGED <<configVars, regVars, allMapData, artifactDataRef, searchResults,
                   mapData, replyText, result, callIdx, groundingCalls,
                   summaryCalls, firstArtifact, lastArtifact, anySucceeded,
                   initialRequestedCalls>>

\* Variant: the fallback does not look at the enable list.
GroundingGuard_IgnoresEnableList(steps, webEnabled) == steps = 0

\* Variant: the fallback does not look at the number of rounds.
GroundingGuard_IgnoresRounds(steps, webEnabled) == webEnabled

\* if (totalSteps === 0 && webSearchEnabled)
GroundingGuard(steps, webEnabled) == steps = 0 /\ webEnabled

\* The test of the grounding fallback: the grounded model call is made, or
\* the fallback is skipped.
Grounding ==
    /\ pc = "grounding"
    /\ UNCHANGED <<msgVars, routeVars, outcomeVars, classifyVars, roundEvents, studyVars, responseLog,
                   dispatchView>>
    /\ IF GroundingGuard(totalSteps, webSearchEnabled)
       THEN /\ groundingCalls' = groundingCalls + 1
            /\ lastEvent' = WriteStepEvents(lastEvent, 1)
            /\ pc' = "awaitGrounding"
       ELSE /\ pc' = "finalize"
            /\ UNCHANGED <<groundingCalls, lastEvent>>
    /\ UNCHANGED <<configVars, regVars, chatVars, loopVars, attempts, modelCalls,
                   attemptModelCalls, summaryCalls, announced, executed, replyLog,
                   firstArtifact, lastArtifact, anySucceeded,
                   initialRequestedCalls, finalReplyEmpty,
                   returnedWithCalls>>

\* Responses of the grounded model: a text and the web chunks of its
\* grounding metadata (Null when it carries no metadata).
GroundedResponses ==
    [text : ReplyTexts, webChunks : {Null, [links |-> <<>>], [links |-> <<"uri">>]}]

extractGroundingResults(resp) ==
    IF resp.webChunks = Null THEN Null
    ELSE IF Len(resp.webChunks.links) > 0 THEN resp.webChunks ELSE Null

\* groundedModel.generateContent(userMessage) returns.
GroundingResponds ==
    /\ pc = "awaitGrounding"
    /\ UNCHANGED <<msgVars, routeVars, outcomeVars, classifyVars, roundEvents, studyVars,
                   dispatchView>>
    /\ \E g \in GroundedResponses :
         /\ response' = TextOf(g)
         /\ responseLog' = Logged(responseLog, TextEntry(g.text))
         /\ searchResults' = extractGroundingResults(g)
         /\ lastEvent' = WriteStepEvents(lastEvent,
                 IF extractGroundingResults(g) # Null THEN 1 ELSE 0)
    /\ pc' = "finalize"
    /\ UNCHANGED <<configVars, regVars, allMapData, artifactDataRef, totalSteps,
                   success1, retriesLeft, mapData, replyText, result, loopVars,
                   obsVars>>

\* Variant: the failure of the grounded call is not caught.
GroundingFails_Rethrows ==
    /\ pc = "awaitGrounding"
    /\ groundingFailed' = TRUE
    /\ pc' = "error"
    /\ errorEvents' = errorEvents + 1
    /\ errorSource' = "generateContent"
    /\ lastEvent' = "error"
    /\ UNCHANGED <<configVars, regVars, chatVars, loopVars, obsVars, msgVars,
                   doneEvents, delivered, anyChartData, payloadLog, classifyVars, roundEvents, studyVars, responseLog,
                   dispatchView>>

\* groundedModel.generateContent(userMessage) rejects: caught and logged.
GroundingFails ==
    /\ pc = "awaitGrounding"
    /\ groundingFailed' = TRUE
    /\ UNCHANGED <<msgVars, routeVars, anyChartData, payloadLog, classifyVars, eventVars, studyVars, responseLog,
                   dispatchView>>
    /\ pc' = "finalize"
    /\ UNCHANGED <<configVars, regVars, chatVars, loopVars, obsVars>>

\* Build final mapData.
BuildMapData(maps) ==
    IF Len(maps) = 1 THEN maps[1].mapData
    ELSE IF Len(maps) > 1 THEN [type |-> "multi", steps |-> maps]
    ELSE Null

\* Variant: the summary is requested for every empty reply.
SummaryGuard_AnyEmptyReply(text, steps) == text.raw = 0

\* if (!replyText && totalSteps > 0)
SummaryGuard(text, steps) == text.raw = 0 /\ steps > 0

ChatResult(text) ==
    [reply |-> text, mapData |-> BuildMapData(allMapData),
     searchResults |-> searchResults, artifactData |-> artifactDataRef]

\* The placeholder texts of the route.
VisualizationText == [raw |-> 54, trimmed |-> 54, phrase |-> "none"]
RetrievedText == [raw |-> 41, trimmed |-> 41, phrase |-> "none"]

\* Variant: the route passes the reply on as it is.
finalReply_Unguarded(res) == res.reply

\* const finalReply = reply || (artifactData ? '...' : '...')
finalReply(res) ==
    IF res.reply.raw > 0 THEN res.reply
    ELSE IF TruthyObj(res.artifactData) THEN VisualizationText
    ELSE RetrievedText

\* The route after chat() returned res: addMessage(convId, 'assistant',
\* finalReply, ...) persists the assistant turn, then the done event is
\* written with reply: finalReply.  (For a new conversation the title is
\* generated in between; finalReply is a constant of the handler.)
RouteDelivers(res) ==
    [persisted |-> finalReply(res), done |-> finalReply(res)]

\* Variant: the done event is written before the summary is requested.
Finalize_DoneBeforeSummary ==
    /\ pc = "finalize"
    /\ UNCHANGED <<functionResponses, errorEvents, errorSource, outcomeVars,
                   classifyVars, roundEvents, studyVars, responseLog,
                   dispatchView>>
    /\ mapData' = BuildMapData(allMapData)
    /\ replyText' = response.text
    /\ IF SummaryGuard(response.text, totalSteps)
       THEN /\ summaryCalls' = summaryCalls + 1
            /\ sentMessage' = Message("summary", <<>>)
            /\ pc' = "awaitSummary"
            /\ doneEvents' = doneEvents + 1
            /\ delivered' = RouteDelivers(ChatResult(response.text))
            /\ lastEvent' = "done"
            /\ UNCHANGED result
       ELSE \* chat() returns and the route writes the done event
            /\ result' = ChatResult(response.text)
            /\ delivered' = RouteDelivers(ChatResult(response.text))
            /\ doneEvents' = doneEvents + 1
            /\ lastEvent' = "done"
            /\ pc' = "done"
            /\ UNCHANGED <<summaryCalls, sentMessage>>
    /\ UNCHANGED <<configVars, regVars, allMapData, artifactDataRef, totalSteps,
                   success1, response, retriesLeft, searchResults, loopVars,
                   attempts, modelCalls, attemptModelCalls, groundingCalls,
                   announced, executed, replyLog, firstArtifact, lastArtifact,
                   anySucceeded, initialRequestedCalls, finalReplyEmpty,
                   returnedWithCalls>>

\* The statements after the grounding fallback: the final mapData and reply
\* text, then either the summary call or the return of chat().
Finalize ==
    /\ pc = "finalize"
    /\ UNCHANGED <<functionResponses, errorEvents, errorSource, outcomeVars,
                   classifyVars, roundEvents, studyVars, responseLog,
                   dispatchView>>
    /\ mapData' = BuildMapData(allMapData)
    /\ replyText' = response.text
    /\ IF SummaryGuard(response.text, totalSteps)
       THEN /\ summaryCalls' = summaryCalls + 1
            /\ sentMessage' = Message("summary", <<>>)
            /\ pc' = "awaitSummary"
            /\ UNCHANGED <<result, doneEvents, delivered, lastEvent>>
       ELSE \* chat() returns and the route writes the done event
            /\ result' = ChatResult(response.text)
            /\ delivered' = RouteDelivers(ChatResult(response.text))
            /\ doneEvents' = doneEvents + 1
            /\ lastEvent' = "done"
            /\ pc' = "done"
            /\ UNCHANGED <<summaryCalls, sentMessage>>
    /\ UNCHANGED <<configVars, regVars, allMapData, artifactDataRef, totalSteps,
                   success1, response, retriesLeft, searchResults, loopVars,
                   attempts, modelCalls, attemptModelCalls, groundingCalls,
                   announced, executed, replyLog, firstArtifact, lastArtifact,
                   anySucceeded, initialRequestedCalls, finalReplyEmpty,
                   returnedWithCalls>>

\* The summary sendMessage returns.
SummaryResponds ==
    /\ pc = "awaitSummary"
    /\ doneEvents' = doneEvents + 1
    /\ lastEvent' = "done"
    /\ sentMessage' = NoMessage
    /\ UNCHANGED <<functionResponses, errorEvents, errorSource, outcomeVars,
                   classifyVars, roundEvents, studyVars,
                   dispatchView>>
    /\ \E t \in ReplyTexts :
         /\ replyText' = t
         /\ result' = ChatResult(t)
         /\ delivered' = RouteDelivers(ChatResult(t))
         /\ responseLog' = Logged(responseLog, TextEntry(t))
    /\ pc' = "done"
    /\ UNCHANGED <<configVars, regVars, allMapData, artifactDataRef, totalSteps,
                   success1, response, retriesLeft, searchResults, mapData,
                   loopVars, obsVars>>

\* The summary sendMessage rejects: caught and logged, the reply stays empty.
SummaryFails ==
    /\ pc = "awaitSummary"
    /\ doneEvents' = doneEvents + 1
    /\ lastEvent' = "done"
    /\ sentMessage' = NoMessage
    /\ UNCHANGED <<functionResponses, errorEvents, errorSource, outcomeVars,
                   classifyVars, roundEvents, studyVars, responseLog,
                   dispatchView>>
    /\ result' = ChatResult(replyText)
    /\ delivered' = RouteDelivers(ChatResult(replyText))
    /\ pc' = "done"
    /\ UNCHANGED <<configVars, regVars, allMapData, artifactDataRef, totalSteps,
                   success1, response, retriesLeft, searchResults, mapData,
                   replyText, loopVars, obsVars>>

Next ==
    \/ ModelResponds
    \/ ModelFails
    \/ EmitToolCall
    \/ ToolReturns
    \/ LoopReturned
    \/ Grounding
    \/ GroundingResponds
    \/ GroundingFails
    \/ Finalize
    \/ SummaryResponds
    \/ SummaryFails

Spec == Init /\ [][Next]_vars

\* Every call the request awaits returns, and the code between two awaits
\* runs to the next await.
FairSpec == Spec /\ WF_vars(Next)

(***************************************************************************)
(* Requests that exercise the dispatch: calls that return different visual *)
(* payloads, calls with missing arguments, calls of unknown functions and  *)
(* of an external tool whose server has been disconnected; chat() with and *)
(* without a step callback.  The step and retry limits are one of two      *)
(* settings: two rounds and no retry, or one round and two retries.        *)
(***************************************************************************)
DispatchToolboxes ==
    {{MapCall, TrafficCall}, {MapCallNoArgs, MapCallNoLocation},
     {UnknownCall, McpCallNoArgs}}

DispatchLimits == {[steps |-> 2, retries |-> 0], [steps |-> 1, retries |-> 2]}

\* disconnectMcpServer removed the tools of the server and the server.
DisconnectedRegistry == [n \in {} |-> [serverName |-> "srv", originalName |-> "ask_agent"]]

DispatchInit ==
    /\ \E l \in DispatchLimits : maxSteps = l.steps /\ maxRetries = l.retries
    /\ enabledTools \in EnabledToolsChoices
    /\ toolbox \in DispatchToolboxes
    /\ onStep \in BOOLEAN
    /\ userLocation = Null
    /\ \/ clients = InitialClients /\ toolRegistry = InitialToolRegistry
       \/ clients = <<>> /\ toolRegistry = DisconnectedRegistry
    /\ RequestStart
    /\ pc = "awaitModel"
    /\ chartData = Null
    /\ StudyIdle

DispatchSpec == DispatchInit /\ [][Next]_vars

(***************************************************************************)
(* Requests whose calls ask for the user's location or search for places,  *)
(* from a client whose location was found and from one whose location was  *)
(* not.                                                                    *)
(***************************************************************************)
LocationToolboxes ==
    {{LocationCall, SearchCall(Undefined)},
     {LocationCallEmptyArgs, SearchCall("Paris"), SearchCallNoArgs}}

LocationInit ==
    /\ maxSteps = 2
    /\ maxRetries \in 0..1
    /\ enabledTools = [isArray |-> FALSE, items |-> <<>>]
    /\ toolbox \in LocationToolboxes
    /\ onStep \in BOOLEAN
    /\ userLocation \in {Null, Here}
    /\ clients = InitialClients
    /\ toolRegistry = InitialToolRegistry
    /\ RequestStart
    /\ pc = "awaitModel"
    /\ chartData = Null
    /\ StudyIdle

LocationSpec == LocationInit /\ [][Next]_vars

(***************************************************************************)
(* buildMcpDataArtifact alone, applied to every shape of structured data.  *)
(***************************************************************************)
ClassifyInit ==
    /\ chartData \in ChartDataShapes
    /\ pc = "classify"
    /\ maxSteps = 0
    /\ maxRetries = 0
    /\ enabledTools = [isArray |-> FALSE, items |-> <<>>]
    /\ toolbox = {McpCall}
    /\ onStep = TRUE
    /\ userLocation = Null
    /\ clients = InitialClients
    /\ toolRegistry = InitialToolRegistry
    /\ RequestStart
    /\ StudyIdle

\* const artifact = buildMcpDataArtifact(call.name, functionResult.mcpChartData)
Classify ==
    /\ pc = "classify"
    /\ artifact' = buildMcpDataArtifact(McpCall.name, chartData)
    /\ pc' = "classified"
    /\ UNCHANGED <<configVars, regVars, chatVars, loopVars, obsVars, msgVars,
                   routeVars, outcomeVars, chartData, eventVars, studyVars, responseLog,
                   dispatchView>>

ClassifySpec == ClassifyInit /\ [][Classify]_vars

(***************************************************************************)
(* sanitizeToolName alone, applied to a name and to its own result.  The   *)
(* names are all short names and the names made of at most one character   *)
(* followed by a run of letters that ends just under, at or over the       *)
(* maximum length.                                                         *)
(***************************************************************************)
Repeat(c, n) == [i \in 1..n |-> c]

NameInputs ==
    SeqsUpTo(NameChars, MaxNameLength)
    \cup {pre \o Repeat("a", n) : pre \in SeqsUpTo(NameChars, 1),
                                  n \in (ToolNameLimit - 1)..(ToolNameLimit + 1)}

\* What the studies of single functions keep fixed.
StudyBase ==
    /\ maxSteps = 0
    /\ maxRetries = 0
    /\ enabledTools = [isArray |-> FALSE, items |-> <<>>]
    /\ toolbox = {McpCall}
    /\ onStep = TRUE
    /\ userLocation = Null
    /\ RequestStart
    /\ chartData = Null
    /\ PairIdle

NameInit ==
    /\ toolName \in NameInputs
    /\ sanitized = <<>>
    /\ pc = "sanitize"
    /\ clients = InitialClients
    /\ toolRegistry = InitialToolRegistry
    /\ StudyBase
    /\ SchemaIdle
    /\ ScanIdle
    /\ AdminIdle

\* const sanitized = sanitizeToolName(...), on the name and then on the
\* result.
Sanitize ==
    /\ pc = "sanitize"
    /\ sanitized' = Append(sanitized,
                           sanitizeToolName(IF sanitized = <<>> THEN toolName
                                            ELSE sanitized[Len(sanitized)]))
    /\ pc' = IF Len(sanitized) = 0 THEN "sanitize" ELSE "sanitized"
    /\ UNCHANGED <<configVars, regVars, chatVars, loopVars, obsVars, msgVars,
                   routeVars, outcomeVars, classifyVars, eventVars, toolName,
                   schemaVars, scanVars, adminVars, other, responseLog, dispatchView>>

NameSpec == NameInit /\ [][Sanitize]_vars

(***************************************************************************)
(* sanitizeForGemini alone.  An input schema is an object with or without  *)
(* a type (a type name or the empty string), with or without a field that  *)
(* is not allowed, and with nothing more, or with properties holding one   *)
(* property, or with items given as one schema or as an array of one       *)
(* schema; the nested schema is an input schema of the depth below or is   *)
(* not an object.  A tool without inputSchema gets the default schema.     *)
(***************************************************************************)
SchemaHeads ==
    {f \in [{"type", "$schema"} -> {Prim("absent"), Prim("string"), Prim("")}] :
        f["$schema"] # Prim("")}

\* The object with the fields of head that are present, and field k = v.
SchemaWith(head, extra) ==
    LET present == {k \in DOMAIN head : head[k] # Prim("absent")}
    IN  Obj([k \in present \cup DOMAIN extra |->
               IF k \in DOMAIN extra THEN extra[k] ELSE head[k]])

NoFields == [k \in {} |-> JsNull]

RECURSIVE SchemaInputs(_)
SchemaInputs(depth) ==
    IF depth = 0 THEN {SchemaWith(h, NoFields) : h \in SchemaHeads}
    ELSE LET nested == SchemaInputs(depth - 1) \cup {Prim("true")}
         IN  {SchemaWith(h, NoFields) : h \in SchemaHeads}
             \cup {SchemaWith(h, [k \in {"properties"} |-> Obj([p \in {"p"} |-> n])]) :
                      h \in SchemaHeads, n \in nested}
             \cup {SchemaWith(h, [k \in {"items"} |-> n]) :
                      h \in SchemaHeads, n \in nested}
             \cup {SchemaWith(h, [k \in {"items"} |-> Arr(<<n>>)]) :
                      h \in SchemaHeads, n \in nested}

DefaultSchema ==
    Obj([k \in {"type", "properties"} |->
           IF k = "type" THEN Prim("object") ELSE Obj(NoFields)])

SchemaInit ==
    /\ inputSchema \in SchemaInputs(MaxSchemaDepth) \cup {JsNull}
    /\ parameters = JsNull
    /\ pc = "normalize"
    /\ clients = InitialClients
    /\ toolRegistry = InitialToolRegistry
    /\ StudyBase
    /\ NameIdle
    /\ ScanIdle
    /\ AdminIdle

\* parameters: sanitizeForGemini(tool.inputSchema || { type: 'object',
\* properties: {} })
Normalize ==
    /\ pc = "normalize"
    /\ parameters' = sanitizeForGemini(IF Truthy(inputSchema) THEN inputSchema
                                       ELSE DefaultSchema)
    /\ pc' = "normalized"
    /\ UNCHANGED <<configVars, regVars, chatVars, loopVars, obsVars, msgVars,
                   routeVars, outcomeVars, classifyVars, eventVars, nameVars,
                   inputSchema, scanVars, adminVars, other, responseLog, dispatchView>>

SchemaSpec == SchemaInit /\ [][Normalize]_vars

(***************************************************************************)
(* callMcpTool alone: a server with the tool ask_agent and another tool,   *)
(* called without args, with needChartData set or not set, for every       *)
(* answer of the provider.                                                 *)
(***************************************************************************)
OtherToolName == "srv__query"

ScanRegistry ==
    [n \in {McpToolName, OtherToolName} |->
       [serverName |-> "srv",
        originalName |-> IF n = McpToolName THEN "ask_agent" ELSE "query"]]

ScanArgs ==
    {Null, [question |-> "q", needChartData |-> TRUE],
     [question |-> "q", needChartData |-> FALSE]}

ScanInit ==
    /\ mcpRequest \in [name : {McpToolName, OtherToolName}, args : ScanArgs,
                        outcome : TextOutcomes \cup McpOutcomes]
    /\ mcpResult = Null
    /\ pc = "callTool"
    /\ clients = InitialClients
    /\ toolRegistry = ScanRegistry
    /\ StudyBase
    /\ NameIdle
    /\ SchemaIdle
    /\ AdminIdle

\* const functionResult = await callMcpTool(call.name, call.args)
CallTool ==
    /\ pc = "callTool"
    /\ mcpResult' = callMcpTool(toolRegistry, ConnectedServers(clients), mcpRequest.name,
                                mcpRequest.args, mcpRequest.outcome)
    /\ pc' = "toolCalled"
    /\ UNCHANGED <<configVars, regVars, chatVars, loopVars, obsVars, msgVars,
                   routeVars, outcomeVars, classifyVars, eventVars, nameVars,
                   schemaVars, mcpRequest, adminVars, other, responseLog, dispatchView>>

ScanSpec == ScanInit /\ [][CallTool]_vars

(***************************************************************************)
(* The registry while servers are connected and disconnected.  Every await *)
(* of connectMcpServer and disconnectMcpServer is a point where other code *)
(* runs; the statements between two awaits run without interruption.  Two  *)
(* servers whose names sanitize to the same text list up to two tools.     *)
(***************************************************************************)
RegistryServers == {<<"a", " ">>, <<"a", "_">>}

ToolLists == {<<>>, << <<"a">> >>, << <<"7">> >>, << <<"a">>, <<"7">> >>,
              << <<"7">>, <<"a">> >>}

requestVars == <<configVars, pc, chatVars, loopVars, obsVars, msgVars, routeVars,
                 outcomeVars, classifyVars, eventVars, dispatchView, responseLog>>

\* The entry a name is given last when the tools of toolList are registered
\* one after another.
LastEntryFor(key, server, toolList) ==
    LET hits == {i \in 1..Len(toolList) : NamespacedName(server, toolList[i]) = key}
        last == CHOOSE i \in hits : \A j \in hits : j <= i
    IN  RegistryEntry(server, toolList[last])

\* connectMcpServer(serverRecord) is called: disconnectMcpServer(name) calls
\* close() on the client of an existing entry and awaits it, or returns.
StartConnect(o, server) ==
    /\ ops[o] = IdleOp
    /\ IF server \in ConnectedServers(clients)
       THEN /\ clients' = ClientsClose(clients, server)
            /\ ops' = [ops EXCEPT ![o] = [kind |-> "connect", server |-> server,
                                          stage |-> "close"]]
       ELSE /\ ops' = [ops EXCEPT ![o] = [kind |-> "connect", server |-> server,
                                          stage |-> "connect"]]
            /\ UNCHANGED clients
    /\ UNCHANGED <<requestVars, other, toolRegistry, lastRegistered, invoked, nameVars,
                   schemaVars, scanVars>>

\* disconnectMcpServer(serverName) is called for a server that has an entry
\* (without one it returns at once).
StartDisconnect(o, server) ==
    /\ ops[o] = IdleOp
    /\ server \in ConnectedServers(clients)
    /\ clients' = ClientsClose(clients, server)
    /\ ops' = [ops EXCEPT ![o] = [kind |-> "disconnect", server |-> server,
                                  stage |-> "close"]]
    /\ UNCHANGED <<requestVars, other, toolRegistry, lastRegistered, invoked, nameVars,
                   schemaVars, scanVars>>

\* for (const [serverName, { client }] of clients): a call of
\* shutdownMcpClients that awaits close() is at the pos-th entry of clients.
\* An iteration over a Map goes on with the entries that follow its place,
\* also when the entry at its place or one before it is deleted meanwhile.
IteratorAfterDelete(op, cs, server) ==
    IF op.kind = "shutdown" /\ (\E i \in 1..op.pos : cs[i].name = server)
    THEN [op EXCEPT !.pos = @ - 1]
    ELSE op

\* await entry.client.close() returns or throws (caught): the tools of the
\* server leave the registry and the server leaves clients.
CloseReturns(o) ==
    /\ ops[o] # IdleOp
    /\ ops[o].stage = "close"
    /\ toolRegistry' = RemoveTools(toolRegistry, ops[o].server)
    /\ lastRegistered' = RemoveTools(lastRegistered, ops[o].server)
    /\ clients' = ClientsDelete(clients, ops[o].server)
    /\ ops' = [p \in AdminOps |->
                 IF p # o THEN IteratorAfterDelete(ops[p], clients, ops[o].server)
                 ELSE IF ops[o].kind = "connect"
                      THEN [ops[o] EXCEPT !.stage = "connect"]
                      ELSE IdleOp]
    /\ UNCHANGED <<requestVars, other, invoked, nameVars, schemaVars, scanVars>>

\* await client.connect(transport) returns, or throws and ends the call.
ConnectReturns(o) ==
    /\ ops[o] # IdleOp
    /\ ops[o].stage = "connect"
    /\ \E ok \in BOOLEAN :
         ops' = [ops EXCEPT ![o] = IF ok THEN [ops[o] EXCEPT !.stage = "list"]
                                   ELSE IdleOp]
    /\ UNCHANGED <<requestVars, other, regVars, lastRegistered, invoked, nameVars,
                   schemaVars, scanVars>>

\* await client.listTools() returns: the entry of the server is set and
\* its tools are registered.
ListReturns(o) ==
    /\ ops[o] # IdleOp
    /\ ops[o].stage = "list"
    /\ \E toolList \in ToolLists :
         LET server == ops[o].server
             keys == {NamespacedName(server, toolList[i]) : i \in 1..Len(toolList)}
         IN  /\ clients' = ClientsSet(clients, ClientEntry(server, toolList))
             /\ toolRegistry' = RegisterTools(toolRegistry, server, toolList)
             /\ lastRegistered' =
                    [n \in DOMAIN lastRegistered \cup keys |->
                       IF n \in keys THEN LastEntryFor(n, server, toolList)
                       ELSE lastRegistered[n]]
    /\ ops' = [ops EXCEPT ![o] = IdleOp]
    /\ UNCHANGED <<requestVars, other, invoked, nameVars, schemaVars, scanVars>>

\* await client.listTools() throws and ends the call.
ListFails(o) ==
    /\ ops[o] # IdleOp
    /\ ops[o].stage = "list"
    /\ ops' = [ops EXCEPT ![o] = IdleOp]
    /\ UNCHANGED <<requestVars, other, regVars, lastRegistered, invoked, nameVars,
                   schemaVars, scanVars>>

\* A request dispatches a name the registry holds: callMcpTool up to
\* entry.client.callTool({ name: originalName, ... }).
DispatchTool ==
    /\ \E name \in DOMAIN toolRegistry :
         invoked' = [name |-> name, target |-> CallTarget(toolRegistry, clients, name)]
    /\ UNCHANGED <<requestVars, other, regVars, ops, lastRegistered, nameVars,
                   schemaVars, scanVars>>

RegistryInit ==
    /\ clients = <<>>
    /\ toolRegistry = <<>>
    /\ AdminIdle
    /\ maxSteps = 0
    /\ maxRetries = 0
    /\ enabledTools \in {[isArray |-> FALSE, items |-> <<>>],
                         [isArray |-> TRUE,
                          items |-> <<NamespacedName(<<"a", " ">>, <<"a">>)>>]}
    /\ toolbox = {McpCall}
    /\ onStep = TRUE
    /\ userLocation = Null
    /\ RequestStart
    /\ pc = "registry"
    /\ chartData = Null
    /\ PairIdle
    /\ NameIdle
    /\ SchemaIdle
    /\ ScanIdle

RegistryNext ==
    \/ \E o \in AdminOps, server \in RegistryServers : StartConnect(o, server)
    \/ \E o \in AdminOps, server \in RegistryServers : StartDisconnect(o, server)
    \/ \E o \in AdminOps : CloseReturns(o)
    \/ \E o \in AdminOps : ConnectReturns(o)
    \/ \E o \in AdminOps : ListReturns(o)
    \/ \E o \in AdminOps : ListFails(o)
    \/ DispatchTool

RegistrySpec == RegistryInit /\ [][RegistryNext]_vars

(***************************************************************************)
(* The registry with shutdownMcpClients among the calls in flight.         *)
(***************************************************************************)
ShutdownAt(pos, cs) ==
    [kind |-> "shutdown", server |-> cs[pos].name, stage |-> "shutdown", pos |-> pos]

\* shutdownMcpClients() is called: with no entry in clients both maps are
\* cleared at once, otherwise close() is called on the client of the first
\* entry and awaited.
StartShutdown(o) ==
    /\ ops[o] = IdleOp
    /\ IF clients = <<>>
       THEN /\ toolRegistry' = <<>>
            /\ lastRegistered' = <<>>
            /\ UNCHANGED <<clients, ops>>
       ELSE /\ clients' = ClientsClose(clients, clients[1].name)
            /\ ops' = [ops EXCEPT ![o] = ShutdownAt(1, clients)]
            /\ UNCHANGED <<toolRegistry, lastRegistered>>
    /\ UNCHANGED <<requestVars, other, invoked, nameVars, schemaVars, scanVars>>

\* await client.close() returns or throws (caught): the loop goes on with
\* the entry that follows, and after the last one clients.clear() and
\* toolRegistry.clear() run.
ShutdownCloseReturns(o) ==
    /\ ops[o].kind = "shutdown"
    /\ LET next == ops[o].pos + 1
       IN  IF next <= Len(clients)
           THEN /\ clients' = ClientsClose(clients, clients[next].name)
                /\ ops' = [ops EXCEPT ![o] = ShutdownAt(next, clients)]
                /\ UNCHANGED <<toolRegistry, lastRegistered>>
           ELSE /\ clients' = <<>>
                /\ toolRegistry' = <<>>
                /\ lastRegistered' = <<>>
                /\ ops' = [p \in AdminOps |->
                             IF p = o THEN IdleOp
                             ELSE IF ops[p].kind = "shutdown"
                                  THEN [ops[p] EXCEPT !.pos = 0]
                                  ELSE ops[p]]
    /\ UNCHANGED <<requestVars, other, invoked, nameVars, schemaVars, scanVars>>

LifecycleNext ==
    \/ RegistryNext
    \/ \E o \in AdminOps : StartShutdown(o)
    \/ \E o \in AdminOps : ShutdownCloseReturns(o)

LifecycleSpec == RegistryInit /\ [][LifecycleNext]_vars

(***************************************************************************)
(* The tools endpoint and the client's send.  The client lists the tools   *)
(* with GET /tools, keeps an enabled flag per listed tool and sends the    *)
(* names of the enabled ones with every message; a caller of the chat      *)
(* route other than the client may send no enable list.  The servers are   *)
(* named web and web_search and list tools named search and web_search.    *)
(* The model requests no call in these requests, so no summary is asked    *)
(* for either.                                                             *)
(***************************************************************************)
WebChars == <<"w", "e", "b">>
SearchChars == <<"s", "e", "a", "r", "c", "h">>
WebSearchChars == WebChars \o <<"_">> \o SearchChars

ListingClients ==
    {<<>>,
     <<ClientEntry(WebChars, <<SearchChars>>)>>,
     <<ClientEntry(WebSearchChars, <<WebSearchChars>>)>>,
     <<ClientEntry(WebSearchChars, <<SearchChars>>),
       ClientEntry(WebChars, <<SearchChars, WebSearchChars>>)>>}

\* The registry after the servers of cs were connected one after another.
RECURSIVE RegistryFrom(_, _)
RegistryFrom(registry, cs) ==
    IF cs = <<>> THEN registry
    ELSE RegistryFrom(RegisterTools(registry, Head(cs).name, Head(cs).tools), Tail(cs))

\* router.get('/'): res.json({ tools: [...builtin, ...mcp] }), the names
ToolsListing(cs) == BuiltinToolNames \o getMcpTools(cs)

\* A spelled-out name as the requests carry it: the names the requests look
\* at, and one text for every other name.
NameText(chars) ==
    IF chars = WebSearchChars THEN "web_search"
    ELSE IF \E i \in 1..Len(BuiltinToolNames) : BuiltinToolNames[i] = chars
    THEN BuiltinToolTexts[CHOOSE i \in 1..Len(BuiltinToolNames) :
                             BuiltinToolNames[i] = chars]
    ELSE "external_tool"

\* The enabled flags the client may hold for a listing of n tools: all, none,
\* the built-in tools only, the external tools only.
EnabledFlags(n) ==
    {1..n, {}, 1..Len(BuiltinToolNames), (Len(BuiltinToolNames) + 1)..n}

\* availableTools.filter(t => t.enabled).map(t => t.name), and the body
\* sendMessage posts: an array is truthy, also an empty one.
EnabledToolNames(listing, flags) ==
    LET Pick(i) == i \in flags
        picked == SelectSeq([i \in 1..Len(listing) |-> i], Pick)
    IN  [isArray |-> TRUE,
         items |-> [k \in 1..Len(picked) |-> NameText(listing[picked[k]])]]

ListingInit ==
    /\ maxSteps = 1
    /\ maxRetries \in 0..1
    /\ enabledTools = [isArray |-> FALSE, items |-> <<>>]
    /\ toolbox = {}
    /\ onStep = TRUE
    /\ userLocation \in {Null, Here}
    /\ clients \in ListingClients
    /\ toolRegistry = RegistryFrom(<<>>, clients)
    /\ RequestStart
    /\ pc = "listing"
    /\ chartData = Null
    /\ StudyIdle

\* The client sends a message: the enable list is built from the listing.
ClientSends ==
    /\ pc = "listing"
    /\ \E flags \in EnabledFlags(Len(ToolsListing(clients))) :
         enabledTools' = EnabledToolNames(ToolsListing(clients), flags)
    /\ pc' = "awaitModel"
    /\ UNCHANGED <<maxSteps, maxRetries, toolbox, onStep, userLocation, regVars,
                   chatVars, loopVars, obsVars, msgVars, routeVars, outcomeVars,
                   classifyVars, eventVars, studyVars, dispatchView, responseLog>>

\* Another caller posts a message without an enable list.
DirectRequest ==
    /\ pc = "listing"
    /\ pc' = "awaitModel"
    /\ UNCHANGED <<configVars, regVars, chatVars, loopVars, obsVars, msgVars,
                   routeVars, outcomeVars, classifyVars, eventVars, studyVars,
                   dispatchView, responseLog>>

ListingNext ==
    \/ ClientSends
    \/ DirectRequest
    \/ ModelResponds
    \/ ModelFails
    \/ LoopReturned
    \/ Grounding
    \/ GroundingResponds
    \/ GroundingFails
    \/ Finalize

ListingSpec == ListingInit /\ [][ListingNext]_vars

(***************************************************************************)
(* Two requests in one process.  A request runs from one await to the next *)
(* without interruption; at an await the other request can run.  The       *)
(* values of chat()'s parameters and locals, of the locals of the          *)
(* runReActLoop() it awaits and of the route handler belong to one call    *)
(* and are put aside while the other request runs; clients and             *)
(* toolRegistry are the module's and are shared.  The responses each       *)
(* request receives are recorded.                                          *)
(***************************************************************************)
\* The request-scoped values of the running request.
Running ==
    [maxSteps |-> maxSteps, maxRetries |-> maxRetries, enabledTools |-> enabledTools, toolbox |-> toolbox, onStep |-> onStep, userLocation |-> userLocation,
     pc |-> pc,
     allMapData |-> allMapData, artifactDataRef |-> artifactDataRef, totalSteps |-> totalSteps, success1 |-> success1, response |-> response, retriesLeft |-> retriesLeft, searchResults |-> searchResults, mapData |-> mapData, replyText |-> replyText, result |-> result,
     loopResponse |-> loopResponse, functionCalls |-> functionCalls, stepCount |-> stepCount, successfulCalls |-> successfulCalls, callIdx |-> callIdx,
     attempts |-> attempts, modelCalls |-> modelCalls, attemptModelCalls |-> attemptModelCalls, groundingCalls |-> groundingCalls, summaryCalls |-> summaryCalls, announced |-> announced, executed |-> executed, replyLog |-> replyLog, firstArtifact |-> firstArtifact, lastArtifact |-> lastArtifact, anySucceeded |-> anySucceeded, initialRequestedCalls |-> initialRequestedCalls, finalReplyEmpty |-> finalReplyEmpty, returnedWithCalls |-> returnedWithCalls,
     functionResponses |-> functionResponses, sentMessage |-> sentMessage,
     doneEvents |-> doneEvents, delivered |-> delivered, errorEvents |-> errorEvents, errorSource |-> errorSource,
     groundingFailed |-> groundingFailed, anyChartData |-> anyChartData, payloadLog |-> payloadLog,
     roundEvents |-> roundEvents, lastEvent |-> lastEvent,
     dispatchView |-> dispatchView, responseLog |-> responseLog]

\* Variant: allMapData is a value of the module, one list for all requests.
ResumedPayloads_ModuleLevel(running, saved) == running

\* const allMapData = [] is a local of chat(): the request that resumes goes
\* on with its own list.
ResumedPayloads(running, saved) == saved

\* The running request is suspended at its await (or has ended) and the
\* other request resumes.
Switch ==
    /\ other # Null
    /\ other' = Running
    /\ maxSteps' = other.maxSteps
    /\ maxRetries' = other.maxRetries
    /\ enabledTools' = other.enabledTools
    /\ toolbox' = other.toolbox
    /\ onStep' = other.onStep
    /\ userLocation' = other.userLocation
    /\ pc' = other.pc
    /\ allMapData' = ResumedPayloads(allMapData, other.allMapData)
    /\ artifactDataRef' = other.artifactDataRef
    /\ totalSteps' = other.totalSteps
    /\ success1' = other.success1
    /\ response' = other.response
    /\ retriesLeft' = other.retriesLeft
    /\ searchResults' = other.searchResults
    /\ mapData' = other.mapData
    /\ replyText' = other.replyText
    /\ result' = other.result
    /\ loopResponse' = other.loopResponse
    /\ functionCalls' = other.functionCalls
    /\ stepCount' = other.stepCount
    /\ successfulCalls' = other.successfulCalls
    /\ callIdx' = other.callIdx
    /\ attempts' = other.attempts
    /\ modelCalls' = other.modelCalls
    /\ attemptModelCalls' = other.attemptModelCalls
    /\ groundingCalls' = other.groundingCalls
    /\ summaryCalls' = other.summaryCalls
    /\ announced' = other.announced
    /\ executed' = other.executed
    /\ replyLog' = other.replyLog
    /\ firstArtifact' = other.firstArtifact
    /\ lastArtifact' = other.lastArtifact
    /\ anySucceeded' = other.anySucceeded
    /\ initialRequestedCalls' = other.initialRequestedCalls
    /\ finalReplyEmpty' = other.finalReplyEmpty
    /\ returnedWithCalls' = other.returnedWithCalls
    /\ functionResponses' = other.functionResponses
    /\ sentMessage' = other.sentMessage
    /\ doneEvents' = other.doneEvents
    /\ delivered' = other.delivered
    /\ errorEvents' = other.errorEvents
    /\ errorSource' = other.errorSource
    /\ groundingFailed' = other.groundingFailed
    /\ anyChartData' = other.anyChartData
    /\ payloadLog' = other.payloadLog
    /\ roundEvents' = other.roundEvents
    /\ lastEvent' = other.lastEvent
    /\ dispatchView' = other.dispatchView
    /\ responseLog' = other.responseLog
    /\ UNCHANGED <<regVars, classifyVars, nameVars, schemaVars, scanVars, adminVars>>

\* The first request asks for a tool that returns a visual payload, has two
\* rounds and may fall back to the web search; the second, when there is
\* one, asks for a ready-made artifact, has one round and an enable list
\* without the web search.
PairInit ==
    /\ maxSteps = 2
    /\ maxRetries = 0
    /\ enabledTools = [isArray |-> FALSE, items |-> <<>>]
    /\ toolbox = {MapCall}
    /\ onStep = TRUE
    /\ userLocation = Null
    /\ clients = InitialClients
    /\ toolRegistry = InitialToolRegistry
    /\ RequestStart
    /\ pc = "awaitModel"
    /\ chartData = Null
    /\ NameIdle
    /\ SchemaIdle
    /\ ScanIdle
    /\ AdminIdle
    /\ responseLog = EmptyLog
    /\ other \in {Null, [Running EXCEPT
                             !.toolbox = {ArtifactCall("A")},
                             !.maxSteps = 1,
                             !.enabledTools = [isArray |-> TRUE, items |-> <<>>]]}

PairNext ==
    \/ Next
    \/ Switch

PairSpec == PairInit /\ [][PairNext]_vars

(***************************************************************************)
(* One request whose responses and step indices are recorded: up to two    *)
(* rounds in each attempt, and one retry.                                  *)
(***************************************************************************)
StepInit ==
    /\ maxSteps = 2
    /\ maxRetries = 1
    /\ enabledTools = [isArray |-> FALSE, items |-> <<>>]
    /\ toolbox = {MapCall}
    /\ onStep = TRUE
    /\ userLocation = Null
    /\ clients = InitialClients
    /\ toolRegistry = InitialToolRegistry
    /\ RequestStart
    /\ pc = "awaitModel"
    /\ chartData = Null
    /\ NameIdle
    /\ SchemaIdle
    /\ ScanIdle
    /\ AdminIdle
    /\ responseLog = EmptyLog
    /\ other = Null

StepSpec == StepInit /\ [][Next]_vars

(***************************************************************************)
(* One request whose function results are recorded, with calls that return *)
(* ready-made artifacts and calls of the external tool, which may return   *)
(* structured data.                                                        *)
(***************************************************************************)
ArtifactInit ==
    /\ maxSteps = 2
    /\ maxRetries = 0
    /\ enabledTools = [isArray |-> FALSE, items |-> <<>>]
    /\ toolbox = {McpCall, ArtifactCall("A"), ArtifactCall("B")}
    /\ onStep = TRUE
    /\ userLocation = Null
    /\ clients = InitialClients
    /\ toolRegistry = InitialToolRegistry
    /\ RequestStart
    /\ pc = "awaitModel"
    /\ chartData = Null
    /\ NameIdle
    /\ SchemaIdle
    /\ ScanIdle
    /\ AdminIdle
    /\ responseLog = EmptyLog
    /\ other = Null

ArtifactSpec == ArtifactInit /\ [][Next]_vars

(***************************************************************************)
(* A request during which the server of the external tool is disconnected: *)
(* disconnectMcpServer("srv") can be called at every await of the request, *)
(* and its own await is a point where the request runs on.                 *)
(***************************************************************************)
ChurnToolboxes == {{McpCall}, {McpCall, MapCall}}

ChurnInit ==
    /\ maxSteps = 2
    /\ maxRetries = 0
    /\ enabledTools = [isArray |-> FALSE, items |-> <<>>]
    /\ toolbox \in ChurnToolboxes
    /\ onStep \in BOOLEAN
    /\ userLocation = Null
    /\ clients = InitialClients
    /\ toolRegistry = InitialToolRegistry
    /\ RequestStart
    /\ pc = "awaitModel"
    /\ chartData = Null
    /\ StudyIdle

ChurnNext ==
    \/ Next
    \/ \E o \in AdminOps : StartDisconnect(o, "srv")
    \/ \E o \in AdminOps : CloseReturns(o)

ChurnSpec == ChurnInit /\ [][ChurnNext]_vars

TypeOK ==
    /\ pc \in {"registry", "listing", "sanitize", "sanitized", "normalize", "normalized", "callTool",
               "toolCalled", "awaitModel", "toolCall", "awaitTool", "loopReturned", "grounding",
               "awaitGrounding", "finalize", "awaitSummary", "done",
               "error", "classify", "classified"}
    /\ stepCount \in Nat
    /\ callIdx \in 0..Len(functionCalls)

(***************************************************************************)
(* Quantities the properties speak about.                                  *)
(***************************************************************************)
\* A dispatch round of the running attempt is in progress.
InRound == pc \in {"toolCall", "awaitTool"}

\* Dispatch rounds of the current attempt: one function-response message is
\* sent per completed round.
DispatchRounds == (attemptModelCalls - 1) + (IF InRound THEN 1 ELSE 0)

\* Dispatch rounds of the request, over all attempts.
TotalRounds == (modelCalls - attempts) + (IF InRound THEN 1 ELSE 0)

\* Retry attempts started so far.
Retries == attempts - 1

\* The reflexion loop has been left.
ReflexionOver ==
    pc \in {"grounding", "awaitGrounding", "finalize", "awaitSummary", "done"}

Terminated == pc \in {"done", "error"}

WebSearchAllowed ==
    ~enabledTools.isArray \/ \E i \in 1..Len(enabledTools.items) :
                                enabledTools.items[i] = "web_search"

(***************************************************************************)
(* C1: in one attempt of the Step Engine with maxSteps = N, the number of  *)
(* dispatch rounds never exceeds N, whatever the model answers.            *)
(***************************************************************************)
C1_RoundsWithinBudget == DispatchRounds <= maxSteps

\* An attempt used its whole budget of two rounds and the model still
\* requests calls.
C1_Witness ==
    /\ pc = "loopReturned"
    /\ maxSteps = 2
    /\ DispatchRounds = 2
    /\ returnedWithCalls

C3_RetryOnlyAfterNoSuccess ==
    [][attempts' > attempts => (pc = "loopReturned" /\ successfulCalls = 0)]_vars

(***************************************************************************)
(* C11: no retry attempt is started after an attempt whose reply text is   *)
(* satisfactory: not empty, at least 60 characters long after trimming,    *)
(* and free of the low-confidence phrases in any letter case.              *)
(***************************************************************************)
Satisfactory(text) ==
    /\ text.raw > 0
    /\ text.trimmed >= 60
    /\ text.phrase = "none"

C11_NoRetryAfterSatisfactoryReply ==
    [][attempts' > attempts => ~Satisfactory(loopResponse.text)]_vars

\* The first retry returned a satisfactory reply of exactly 60 characters
\* while one retry was left and no call had succeeded: the loop was left.
C11_Witness ==
    /\ pc = "grounding"
    /\ maxRetries = 2
    /\ Retries = 1
    /\ success1 = 0
    /\ Satisfactory(response.text)
    /\ response.text.trimmed = MinReplyLength

(***************************************************************************)
(* C4: the grounded model call is made exactly once in a request whose     *)
(* attempts performed no dispatch round while web search is enabled, and   *)
(* not at all otherwise; it is made after the last reflexion attempt.      *)
(***************************************************************************)
C4_GroundingIffNoRounds ==
    /\ groundingCalls <= 1
    /\ groundingCalls = 1 => ReflexionOver /\ pc # "grounding"
    /\ pc = "done" =>
         groundingCalls = (IF TotalRounds = 0 /\ WebSearchAllowed THEN 1 ELSE 0)

\* No tool call, unsatisfactory replies, maxRetries = 2: two retries, then
\* one grounded call.
C4_Witness ==
    /\ pc = "done"
    /\ maxRetries = 2
    /\ Retries = 2
    /\ TotalRounds = 0
    /\ ~initialRequestedCalls
    /\ groundingCalls = 1

\* The model answered the initial message with no function call and a
\* satisfactory reply.
DirectAnswer ==
    /\ Len(replyLog) >= 1
    /\ ~replyLog[1]
    /\ ~initialRequestedCalls

(***************************************************************************)
(* C5 as stated: when the model answers the initial message with no        *)
(* function call and a satisfactory reply, the request performs no retry,  *)
(* no grounding call, and returns a result without a visual payload.       *)
(***************************************************************************)
C5_DirectAnswerNoGrounding ==
    DirectAnswer =>
        /\ Retries = 0
        /\ groundingCalls = 0
        /\ pc = "done" => result.mapData = Null

(***************************************************************************)
(* C5 amended: when the model answers the initial message with no function *)
(* call and a satisfactory reply, the request performs no retry and        *)
(* returns a result without a visual payload; it performs the grounding    *)
(* call exactly when web search is enabled.                                *)
(***************************************************************************)
C5_DirectAnswerGroundsIfEnabled ==
    DirectAnswer =>
        /\ Retries = 0
        /\ pc = "done" =>
             /\ result.mapData = Null
             /\ groundingCalls = (IF WebSearchAllowed THEN 1 ELSE 0)

\* A confident direct answer, followed by the grounded call.
C5_Witness ==
    /\ pc = "done"
    /\ DirectAnswer
    /\ groundingCalls = 1
    /\ result.mapData = Null

\* The reply text of the last attempt is empty.
EmptyAfterAttempts == ReflexionOver /\ finalReplyEmpty

(***************************************************************************)
(* C6 as stated: if the reply text at the end of all attempts is empty,    *)
(* the summary call is issued if and only if at least one tool call        *)
(* succeeded in the request; it is never issued more than once.            *)
(***************************************************************************)
C6_SummaryIffSuccess ==
    /\ summaryCalls <= 1
    /\ (pc = "done" /\ EmptyAfterAttempts) => (summaryCalls = 1 <=> anySucceeded)

(***************************************************************************)
(* C6 amended: if the reply text at the end of all attempts is empty, the  *)
(* summary call is issued if and only if at least one dispatch round was   *)
(* performed in the request, whether or not any of its calls succeeded; it *)
(* is never issued more than once.                                         *)
(***************************************************************************)
C6_SummaryIffRounds ==
    /\ summaryCalls <= 1
    /\ (pc = "done" /\ EmptyAfterAttempts) => (summaryCalls = 1 <=> TotalRounds > 0)

\* An empty reply after a round in which no call succeeded, and the summary
\* call was issued.
C6_Witness ==
    /\ pc = "done"
    /\ EmptyAfterAttempts
    /\ TotalRounds > 0
    /\ ~anySucceeded
    /\ summaryCalls = 1

(***************************************************************************)
(* C7 as stated: when several calls of a request return a ready-made       *)
(* artifact, the final artifact is the one returned by the first such call *)
(* in dispatch order.                                                      *)
(***************************************************************************)
C7_FirstArtifactWins ==
    (pc = "done" /\ firstArtifact # Null) => result.artifactData = firstArtifact

(***************************************************************************)
(* C7 amended: when several calls of a request return a ready-made         *)
(* artifact, the final artifact is the one returned by the last such call  *)
(* in dispatch order; artifacts returned by earlier calls are replaced.    *)
(***************************************************************************)
C7_LastArtifactWins ==
    (pc = "done" /\ lastArtifact # Null) => result.artifactData = lastArtifact

\* Two different ready-made artifacts were returned, the final one is the
\* second.
C7_Witness ==
    /\ pc = "done"
    /\ firstArtifact # Null
    /\ lastArtifact # firstArtifact
    /\ result.artifactData = lastArtifact

(***************************************************************************)
(* C8: every request terminates with a result or an error provided each    *)
(* model call and each tool dispatch returns; it makes at most             *)
(* 1 + maxRetries attempts, each with at most maxSteps + 1 model calls,    *)
(* plus at most one grounding call and at most one summary call.           *)
(***************************************************************************)
C8_CallBudget ==
    /\ attempts <= 1 + maxRetries
    /\ attemptModelCalls <= maxSteps + 1
    /\ modelCalls <= (1 + maxRetries) * (maxSteps + 1)
    /\ groundingCalls <= 1
    /\ summaryCalls <= 1

C8_Terminates == []C8_CallBudget /\ <>Terminated

\* A request that used every attempt and every model call of the last
\* attempt, then the summary call.
C8_Witness ==
    /\ pc = "done"
    /\ maxRetries = 2
    /\ maxSteps = 2
    /\ attempts = 3
    /\ attemptModelCalls = 3
    /\ summaryCalls = 1

\* The loop has returned while the last response still requests calls.
Abandoned == returnedWithCalls

(***************************************************************************)
(* C9: if the model's response still requests calls after maxSteps         *)
(* dispatch rounds of an attempt, the attempt ends normally with that      *)
(* response: its calls are never dispatched, no tool_call event is emitted *)
(* for them, and no error is raised.                                       *)
(***************************************************************************)
C9_LimitEndsAttempt ==
    /\ [](Abandoned => announced = 0 /\ executed = 0 /\ pc # "error")
    /\ [][(/\ pc = "awaitModel"
           /\ DispatchRounds = maxSteps
           /\ pc' # "error")
          => (pc' = "loopReturned" /\ announced' = 0 /\ executed' = 0)]_vars

\* The retry attempt has returned after its two rounds with a response that
\* still requests calls.
C9_Witness ==
    /\ pc = "loopReturned"
    /\ maxSteps = 2
    /\ stepCount = 2
    /\ attempts = 2
    /\ Abandoned

(***************************************************************************)
(* C10: each retry attempt gets a full step budget: it may perform up to   *)
(* maxSteps dispatch rounds regardless of the rounds of earlier attempts,  *)
(* so the rounds of a request are bounded by (1 + maxRetries) * maxSteps   *)
(* and not by maxSteps.                                                    *)
(***************************************************************************)
C10_FreshBudgetPerRetry ==
    /\ [](TotalRounds <= (1 + maxRetries) * maxSteps)
    /\ [][(/\ pc = "awaitModel"
           /\ DispatchRounds < maxSteps
           /\ pc' # "error")
          => ~returnedWithCalls']_vars

\* The last retry performs its second round after the earlier attempts
\* performed four.
C10_Witness ==
    /\ InRound
    /\ maxSteps = 2
    /\ attempts = 3
    /\ totalSteps = 4
    /\ DispatchRounds = 2
    /\ TotalRounds = 6

(***************************************************************************)
(* C12: if the grounded model call fails the request still completes: the  *)
(* failure leaves the response produced before the fallback in place, the  *)
(* next step returns the result, whose reply is the text of that response  *)
(* and which carries no citations, and the caller gets the done event and  *)
(* no error event.                                                         *)
(***************************************************************************)
C12_GroundingFailureNotFatal ==
    /\ [](groundingFailed =>
            /\ pc \in {"finalize", "done"}
            /\ searchResults = Null
            /\ errorEvents = 0)
    /\ [](groundingFailed /\ pc = "done" =>
            /\ result.reply = response.text
            /\ result.searchResults = Null
            /\ doneEvents = 1)
    /\ [][pc = "awaitGrounding" /\ groundingFailed' => response' = response]_vars
    /\ [][groundingFailed /\ pc = "finalize" => pc' = "done"]_vars

\* The grounded call failed after a hedged reply, and the request returned
\* that reply.
C12_Witness ==
    /\ pc = "done"
    /\ groundingFailed
    /\ groundingCalls = 1
    /\ result.reply = HedgedText
    /\ doneEvents = 1

(***************************************************************************)
(* C13: the visual payload of the result is absent when no dispatched call *)
(* returned a payload, is the bare payload when exactly one did, and       *)
(* otherwise is a 'multi' container whose steps list the payloads in the   *)
(* order their calls were dispatched, over the steps and the attempts of   *)
(* the request, each labeled from the name and arguments of its call.      *)
(***************************************************************************)
PayloadOfCall(call) ==
    [type |-> IF call.name = "show_map" THEN "map" ELSE "traffic",
     title |-> call.args.location]

LabelOfCall(call) ==
    <<IF call.name = "show_map" THEN "Map: " ELSE "Traffic: ", call.args.location>>

C13_PayloadsInDispatchOrder ==
    pc = "done" =>
        LET n == Len(payloadLog)
            m == result.mapData
        IN  /\ n = 0 => m = Null
            /\ n = 1 => m = PayloadOfCall(payloadLog[1])
            /\ n > 1 =>
                  /\ m # Null
                  /\ "steps" \in DOMAIN m
                  /\ m.type = "multi"
                  /\ Len(m.steps) = n
                  /\ \A i \in 1..n :
                        /\ m.steps[i].mapData = PayloadOfCall(payloadLog[i])
                        /\ m.steps[i].label = LabelOfCall(payloadLog[i])

\* Two retries: the first dispatched show_traffic and show_map in one round,
\* the second show_traffic; the result carries the three payloads.
C13_Witness ==
    /\ pc = "done"
    /\ attempts = 3
    /\ payloadLog = <<TrafficCall, MapCall, TrafficCall>>
    /\ result.mapData # Null
    /\ Len(result.mapData.steps) = 3

(***************************************************************************)
(* C14: the artifact of the result is non-null if and only if at least one *)
(* dispatched call returned a ready-made artifact or structured chart      *)
(* data; and if any call returned a ready-made artifact, the artifact of   *)
(* the result is a ready-made one and not one built from structured data,  *)
(* whatever the order of the calls.                                        *)
(***************************************************************************)
\* Artifacts built by buildMcpDataArtifact carry a type, those of
\* generate_artifact a title and the HTML only.
BuiltFromData(a) == "type" \in DOMAIN a

C14_ArtifactIffReturned ==
    pc = "done" =>
        /\ (result.artifactData # Null) <=> (lastArtifact # Null \/ anyChartData)
        /\ lastArtifact # Null =>
              /\ result.artifactData # Null
              /\ ~BuiltFromData(result.artifactData)
        /\ (lastArtifact = Null /\ anyChartData) => BuiltFromData(result.artifactData)

\* A request in which the external tool returned chart data and
\* generate_artifact returned an artifact: the result carries the latter.
C14_Witness ==
    /\ pc = "done"
    /\ anyChartData
    /\ lastArtifact = [title |-> "A", html |-> "A"]
    /\ result.artifactData = lastArtifact

(***************************************************************************)
(* C15: building an artifact from structured tool data never throws, for   *)
(* every shape of the data, malformed ones included (headers or columns    *)
(* that are not arrays, rows with null entries, a null first chart).       *)
(***************************************************************************)
C15_BuildNeverThrows == pc = "classified" => ~IsThrown(artifact)

(***************************************************************************)
(* C16: structured data is classified by the first matcher that applies,   *)
(* in the order (1) container whose charts array is not empty and starts   *)
(* with a grid or a chart, (2) chart configuration with a type and         *)
(* data.datasets, (3) table with headers/columns or rows/data, (4) the     *)
(* pretty-printed fallback; whenever an artifact is built it is the one of *)
(* the earliest matcher the data matches, and data matching none of        *)
(* (1)-(3) yields the fallback document.                                   *)
(***************************************************************************)
MatchesContainer(cd) == cd.charts \in {"grid", "chart", "dataOnly"}
MatchesChartConfig(cd) == cd.type /\ cd.data = "datasets"
MatchesTable(cd) ==
    \/ cd.headers # "absent"
    \/ cd.columns # "absent"
    \/ cd.rows # "absent"
    \/ cd.data # "absent"

\* What an artifact is: a grid, a chart, or the kind of its HTML document.
KindOf(a) == IF a.type = "html" THEN a.html ELSE a.type

FirstMatch(cd) ==
    IF MatchesContainer(cd) THEN (IF cd.charts = "grid" THEN "grid" ELSE "chart")
    ELSE IF MatchesChartConfig(cd) THEN "chartjs"
    ELSE IF MatchesTable(cd) THEN "table"
    ELSE "json"

CannotSucceed(call) ==
    \/ call.name \in {"show_map", "show_traffic", "generate_artifact"} /\ call.args = Null
    \/ call.name = "no_such_tool"
    \/ call.name = McpToolName /\ "srv" \notin ConnectedServers(clients)

C17_DispatchNeverThrows ==
    /\ [](errorSource # "dispatch")
    /\ [](\A call \in toolbox :
            /\ \A fr \in DispatchResults(call) :
                  /\ ~IsThrown(fr)
                  /\ CannotSucceed(call) => TruthyStr(fr.error)
            /\ \A o \in {"isError", "throws"} :
                  TruthyStr(callMcpTool(InitialToolRegistry, {"srv"},
                                        McpToolName, call.args, o).error))
    /\ [][(pc = "awaitTool" /\ CannotSucceed(functionCalls[callIdx]))
          => /\ pc' \in {"toolCall", "awaitModel"}
             /\ executed' = executed + 1
             /\ successfulCalls' = successfulCalls]_vars

\* Without a step callback, show_map was called twice with no args: both
\* dispatches failed and the two function responses went to the model.
C17_Witness ==
    /\ pc = "awaitModel"
    /\ ~onStep
    /\ MapCallNoArgs \in toolbox
    /\ sentMessage = Message("functionResponses", <<"show_map", "show_map">>)
    /\ successfulCalls = 0
    /\ ~anySucceeded
    /\ executed = 2

(***************************************************************************)
(* C18: a function call issued with malformed or missing arguments, a call *)
(* with no args at all included, is answered with a failed function result *)
(* fed back to the model and never aborts the request, with or without a   *)
(* step callback.                                                          *)
(***************************************************************************)
MissingArgs(call) ==
    \/ call.args = Null
    \/ /\ call.name \in {"show_map", "show_traffic"}
       /\ call.args.location = Undefined

C18_MissingArgsAnswered ==
    /\ [][(pc = "toolCall" /\ MissingArgs(functionCalls[callIdx]))
          => pc' = "awaitTool"]_vars
    /\ [][(pc = "awaitTool" /\ MissingArgs(functionCalls[callIdx]))
          => /\ pc' \in {"toolCall", "awaitModel"}
             /\ successfulCalls' = successfulCalls
             /\ \/ functionResponses' =
                        Append(functionResponses, functionCalls[callIdx].name)
                \/ sentMessage' =
                        Message("functionResponses",
                                Append(functionResponses, functionCalls[callIdx].name))]_vars

(***************************************************************************)
(* C19: if a model call of the loop fails (the initial message, the retry  *)
(* prompt or a function-response turn, in any attempt), the request        *)
(* aborts: no tool is dispatched and no model call is made afterwards, and *)
(* the caller receives exactly one error event and no done event.          *)
(***************************************************************************)
C19_ModelFailureAborts ==
    /\ [](errorSource = "sendMessage" =>
            /\ pc = "error"
            /\ errorEvents = 1
            /\ doneEvents = 0)
    /\ [][(pc = "awaitModel" /\ errorSource' = "sendMessage") =>
            /\ executed' = executed
            /\ modelCalls' = modelCalls
            /\ groundingCalls' = groundingCalls
            /\ summaryCalls' = summaryCalls]_vars
    /\ [][pc # "error"]_vars

\* The model call that carries the function responses of the first round
\* of a retry failed.
C19_Witness ==
    /\ pc = "error"
    /\ errorSource = "sendMessage"
    /\ attempts = 2
    /\ attemptModelCalls = 2
    /\ sentMessage.kind = "functionResponses"
    /\ errorEvents = 1
    /\ doneEvents = 0

(***************************************************************************)
(* C20: a dispatch round ends with exactly one message to the model, and   *)
(* that message holds one function response per call of the round, in the  *)
(* order of the calls, each with the name of its call, whether the call    *)
(* failed or succeeded; nothing is sent while the round is under way.      *)
(* Rounds cut short by an exception send nothing (see C15, C18, C19).      *)
(***************************************************************************)
CallNames(calls) == [i \in 1..Len(calls) |-> calls[i].name]

C20_OneResponsePerCall ==
    /\ [](InRound =>
            /\ sentMessage = NoMessage
            /\ functionResponses = SubSeq(CallNames(functionCalls), 1, callIdx - 1))
    /\ [][(pc = "awaitTool" /\ pc' = "awaitModel") =>
            /\ sentMessage' = Message("functionResponses", CallNames(functionCalls))
            /\ Len(sentMessage'.responses) = Len(functionCalls)
            /\ modelCalls' = modelCalls + 1]_vars
    /\ [][(pc = "awaitTool" /\ pc' = "toolCall") =>
            /\ modelCalls' = modelCalls
            /\ sentMessage' = NoMessage]_vars

\* A round of two calls, one failed and one successful, has been answered.
C20_Witness ==
    /\ pc = "awaitModel"
    /\ stepCount = 1
    /\ successfulCalls = 1
    /\ sentMessage.kind = "functionResponses"
    /\ Len(sentMessage.responses) = 2

(***************************************************************************)
(* C21: the calls of a round are dispatched one after another in the order *)
(* requested: for each call in turn its tool_call event, the start of its  *)
(* dispatch, the return of its dispatch and its tool_result event; no      *)
(* dispatch starts before the tool_result event of the call before, and a  *)
(* call whose for-body ran has exactly one tool_call and one tool_result   *)
(* event.                                                                  *)
(***************************************************************************)
EventsOfCall(name) ==
    <<Event("tool_call", name), Event("dispatch", name),
      Event("returned", name), Event("tool_result", name)>>

RECURSIVE EventsOfCalls(_)
EventsOfCalls(calls) ==
    IF calls = <<>> THEN <<>>
    ELSE EventsOfCall(Head(calls).name) \o EventsOfCalls(Tail(calls))

C21_SequentialDispatch ==
    /\ [](pc = "toolCall" =>
            roundEvents = EventsOfCalls(SubSeq(functionCalls, 1, callIdx - 1)))
    /\ [](pc = "awaitTool" =>
            roundEvents = EventsOfCalls(SubSeq(functionCalls, 1, callIdx - 1))
                          \o SubSeq(EventsOfCall(functionCalls[callIdx].name), 1, 2))
    /\ [][(pc = "awaitTool" /\ pc' = "awaitModel") =>
            roundEvents' = EventsOfCalls(functionCalls)]_vars

\* A round of two different calls has run to its end.
C21_Witness ==
    /\ pc = "awaitModel"
    /\ Len(roundEvents) = 8
    /\ roundEvents[1].name # roundEvents[5].name
    /\ roundEvents[4].type = "tool_result"
    /\ roundEvents[6].type = "dispatch"

(***************************************************************************)
(* C30: a request ends with exactly one terminal event, done or error and  *)
(* never both, and every step event of the request is written before it.   *)
(***************************************************************************)
C30_OneTerminalEventLast ==
    /\ [](doneEvents + errorEvents <= 1)
    /\ [](pc \in {"done", "error"} <=> doneEvents + errorEvents = 1)
    /\ [](doneEvents = 1 <=> lastEvent = "done")
    /\ [](errorEvents = 1 <=> lastEvent = "error")
    /\ [][(lastEvent \in {"done", "error"}) => (lastEvent' = lastEvent)]_vars

\* A request that wrote step events ended with the done event after a
\* retry and a summary call.
C30_Witness ==
    /\ pc = "done"
    /\ doneEvents = 1
    /\ errorEvents = 0
    /\ lastEvent = "done"
    /\ summaryCalls = 1
    /\ attempts = 2
    /\ totalSteps > 0

(***************************************************************************)
(* C27: sanitizeToolName is idempotent: applied to its own result it gives *)
(* that result again, also for names that start with a character a name    *)
(* may not start with and for names longer than 64 characters.             *)
(***************************************************************************)
C27_SanitizeIdempotent ==
    /\ Len(sanitized) = 2 => sanitized[2] = sanitized[1]
    /\ Len(sanitized) >= 1 => sanitizeToolName(sanitized[1]) = sanitized[1]

\* A name of more than 64 characters that starts with a digit has been
\* sanitized twice.
C27_Witness ==
    /\ pc = "sanitized"
    /\ Len(sanitized) = 2
    /\ Len(toolName) > ToolNameLimit
    /\ ~IsNameStart(toolName[1])
    /\ Len(sanitized[1]) = ToolNameLimit
    /\ sanitized[1] # toolName

(***************************************************************************)
(* C28: after normalization every schema object reachable through          *)
(* properties and items, items given as an array of schemas included,      *)
(* holds only allow-listed fields and has a type.                          *)
(***************************************************************************)
RECURSIVE CleanSchema(_)
CleanSchema(v) ==
    IF v.kind # "object" THEN TRUE
    ELSE /\ DOMAIN v.fields \subseteq GEMINI_ALLOWED_FIELDS
         /\ "type" \in DOMAIN v.fields
         /\ Truthy(v.fields["type"])
         /\ "properties" \in DOMAIN v.fields /\ v.fields["properties"].kind = "object" =>
               \A pk \in DOMAIN v.fields["properties"].fields :
                  CleanSchema(v.fields["properties"].fields[pk])
         /\ "items" \in DOMAIN v.fields =>
               LET items == v.fields["items"]
               IN  IF items.kind = "array"
                   THEN \A i \in 1..Len(items.elems) : CleanSchema(items.elems[i])
                   ELSE CleanSchema(items)

C28_NormalizedEverywhere == pc = "normalized" => CleanSchema(parameters)

(***************************************************************************)
(* C29: when an external tool answers with text that is not JSON, the text *)
(* is scanned for a fenced JSON block and then for an HTML table only if   *)
(* the call asked for structured data; if it did not, or nothing is found, *)
(* the result is a success without structured data.                        *)
(* As stated this fails for a call of ask_agent that carries no args.  It  *)
(* holds for calls that carry args, and the scan is made for the tool      *)
(* ask_agent only; a call of ask_agent without args is answered with a     *)
(* failed result.                                                          *)
(***************************************************************************)
AnsweredWithText == pc = "toolCalled" /\ mcpRequest.outcome \in TextOutcomes

Requested(args) == args # Null /\ args.needChartData

NothingFound(outcome) ==
    outcome \in {"plain", "blockNoData", "blockNull", "blockInvalid"}

PlainSuccess(fr) == ~TruthyStr(fr.error) /\ fr.mcpChartData = Null

C29_ScanOnlyIfRequested ==
    AnsweredWithText =>
        /\ mcpResult.mcpChartData # Null => Requested(mcpRequest.args)
        /\ (~Requested(mcpRequest.args) \/ NothingFound(mcpRequest.outcome)) =>
              PlainSuccess(mcpResult)

C29_ScanOnlyIfRequestedWithArgs ==
    AnsweredWithText =>
        LET original == toolRegistry[mcpRequest.name].originalName
        IN  /\ mcpResult.mcpChartData # Null =>
                  /\ Requested(mcpRequest.args)
                  /\ original = "ask_agent"
                  /\ mcpResult.mcpChartData = ExtractEmbedded(mcpRequest.outcome)
            /\ (mcpRequest.args # Null \/ original # "ask_agent") =>
                  /\ (~Requested(mcpRequest.args) \/ NothingFound(mcpRequest.outcome)) =>
                        PlainSuccess(mcpResult)
                  /\ ~TruthyStr(mcpResult.error)
            /\ (mcpRequest.args = Null /\ original = "ask_agent") =>
                  TruthyStr(mcpResult.error)

\* ask_agent was asked for structured data and answered with text that
\* holds a block that does not parse and a table: the table is taken.
C29_Witness ==
    /\ AnsweredWithText
    /\ mcpRequest.name = McpToolName
    /\ Requested(mcpRequest.args)
    /\ mcpRequest.outcome = "blockInvalidAndTable"
    /\ mcpResult.mcpChartData = HtmlTableData

(***************************************************************************)
(* C22: while servers are connected and disconnected, a request never      *)
(* sees a half-updated registry: for each server, every tool it lists and  *)
(* every name registered to it is both listed by getMcpTools and           *)
(* recognized by isMcpTool.                                                *)
(* This fails: when two servers register the same sanitized name, the      *)
(* disconnection of the one registered last removes the name while the     *)
(* other server still lists it; and of two overlapping connections of one  *)
(* server the names of the first stay registered after the second replaced *)
(* its tool list.                                                          *)
(***************************************************************************)
ListedNames == {getMcpTools(clients)[i] : i \in 1..Len(getMcpTools(clients))}

NamesOf(server) ==
    {NamespacedName(server, ClientOf(clients, server).tools[i]) :
        i \in 1..Len(ClientOf(clients, server).tools)}

RegisteredTo(server) ==
    {n \in DOMAIN toolRegistry : toolRegistry[n].serverName = server}

C22_RegistryNeverHalfUpdated ==
    \A server \in RegistryServers :
        LET names == (IF server \in ConnectedServers(clients)
                      THEN NamesOf(server) ELSE {}) \cup RegisteredTo(server)
        IN  \A n \in names : n \in ListedNames /\ isMcpTool(toolRegistry, n)

(***************************************************************************)
(* C23: the merged tool list offered to the model, built-in tools followed *)
(* by getMcpTools and filtered by enabledTools, never holds two            *)
(* descriptors of the same name.                                           *)
(* This fails when two connected servers list tools that sanitize to the   *)
(* same namespaced name: getMcpTools pushes one descriptor per listed tool.*)
(***************************************************************************)
C23_MergedNamesUnique ==
    LET offered == allTools(clients, enabledTools)
    IN  \A i, j \in 1..Len(offered) : offered[i] = offered[j] => i = j

(***************************************************************************)
(* C24: a name that two registered tools sanitize to belongs to the one    *)
(* registered last: a dispatch of a registered name whose server is        *)
(* connected calls the server and the raw tool name that were registered   *)
(* under that name last.                                                   *)
(***************************************************************************)
C24_OverwriteLast ==
    [][(invoked' # invoked /\ invoked'.target # Null) =>
          (invoked'.target = lastRegistered[invoked'.name])]_vars

\* Both servers are connected and list the tool "a", which gives one name;
\* the dispatch of that name called the server registered last.
C24_Witness ==
    LET first == <<"a", " ">>
        second == <<"a", "_">>
        name == NamespacedName(first, <<"a">>)
    IN  /\ Len(clients) = 2
        /\ clients[1].name = first /\ clients[2].name = second
        /\ clients[1].tools = << <<"a">> >> /\ clients[2].tools = << <<"a">> >>
        /\ ~clients[1].closed /\ ~clients[2].closed
        /\ name = NamespacedName(second, <<"a">>)
        /\ isMcpTool(toolRegistry, name)
        /\ lastRegistered[name].serverName = second
        /\ invoked # Null
        /\ invoked.name = name
        /\ invoked.target = RegistryEntry(second, <<"a">>)

(***************************************************************************)
(* C25: when the server of an external tool is disconnected while a        *)
(* request is in flight, every call of its tool the request dispatches     *)
(* afterwards gets a failed result: the call is not counted as successful, *)
(* its function response is pushed for the model, and the request goes on  *)
(* with the next call or the next model call instead of failing.           *)
(***************************************************************************)
DispatchedAfterDisconnect ==
    /\ pc = "awaitTool"
    /\ functionCalls[callIdx].name = McpToolName
    /\ ~isMcpTool(dispatchView.registry, McpToolName)

C25_DisconnectedToolFailsAndRequestContinues ==
    [][(DispatchedAfterDisconnect /\ pc' # pc) =>
          (/\ pc' \in {"toolCall", "awaitModel"}
           /\ successfulCalls' = successfulCalls
           /\ anySucceeded' = anySucceeded
           /\ executed' = executed + 1
           /\ errorEvents' = errorEvents
           /\ IF pc' = "toolCall"
              THEN functionResponses' = Append(functionResponses, McpToolName)
              ELSE sentMessage' = Message("functionResponses",
                                          Append(functionResponses, McpToolName)))]_vars

\* The first call of the round reached the tool and succeeded, the server
\* was disconnected, and the second call of the tool failed; the request
\* waits for the model's answer to both function responses.
C25_Witness ==
    /\ pc = "awaitModel"
    /\ ~isMcpTool(toolRegistry, McpToolName)
    /\ clients = <<>>
    /\ sentMessage = Message("functionResponses", <<McpToolName, McpToolName>>)
    /\ executed = 2
    /\ successfulCalls = 1
    /\ errorEvents = 0

(***************************************************************************)
(* C26: two requests that run interleaved at their awaits, with the        *)
(* registry unchanged, do not affect each other: the visual payloads, the  *)
(* artifact and the step indices of each request, and the reply and        *)
(* result it returns, are those its own model and tool responses           *)
(* determine, by the same rule as when the request runs alone.             *)
(***************************************************************************)
\* The payload list, the artifact and the reply of a request that has
\* received the recorded responses and nothing else.
RECURSIVE ReplayPayloads(_)
ReplayPayloads(entries) ==
    IF entries = <<>> THEN <<>>
    ELSE LET e == entries[Len(entries)]
             before == ReplayPayloads(SubSeq(entries, 1, Len(entries) - 1))
         IN  IF e.kind = "tool" THEN PushMapData(before, e.call, e.fr) ELSE before

RECURSIVE ReplayArtifact(_)
ReplayArtifact(entries) ==
    IF entries = <<>> THEN Null
    ELSE LET e == entries[Len(entries)]
             before == ReplayArtifact(SubSeq(entries, 1, Len(entries) - 1))
         IN  IF e.kind = "tool" THEN UpdateArtifact(before, e.call, e.fr) ELSE before

RECURSIVE ReplayReply(_)
ReplayReply(entries) ==
    IF entries = <<>> THEN EmptyText
    ELSE LET e == entries[Len(entries)]
         IN  IF e.kind = "text" THEN e.text
             ELSE ReplayReply(SubSeq(entries, 1, Len(entries) - 1))

\* The rounds of the request up to its i-th response.
RoundsUpTo(entries, i) ==
    Cardinality({j \in 1..i : entries[j].kind = "tool" /\ entries[j].first})

AsWhenAlone(r) ==
    LET entries == r.responseLog.entries
    IN  /\ r.allMapData = ReplayPayloads(entries)
        /\ r.artifactDataRef = ReplayArtifact(entries)
        /\ \A i \in 1..Len(entries) :
              entries[i].kind = "tool" => entries[i].step = RoundsUpTo(entries, i)
        /\ r.pc = "done" =>
              /\ r.result.reply = ReplayReply(entries)
              /\ r.result.mapData = BuildMapData(ReplayPayloads(entries))
              /\ r.result.artifactData = ReplayArtifact(entries)

C26_RequestsDoNotInterfere ==
    /\ AsWhenAlone(Running)
    /\ other # Null => AsWhenAlone(other)

\* Both requests are in flight and both have results behind them: the
\* running one got two payloads in its first round and awaits a call of its
\* second, the suspended one got its artifact and awaits its second call.
C26_Witness ==
    /\ other # Null
    /\ pc = "awaitTool"
    /\ stepCount = 2
    /\ Len(allMapData) = 2
    /\ toolbox = {MapCall}
    /\ other.pc = "awaitTool"
    /\ other.executed = 1
    /\ other.artifactDataRef # Null
    /\ allMapData = ReplayPayloads(responseLog.entries)

(***************************************************************************)
(* C31: if at least one call completed without error in the initial        *)
(* attempt, the request performs no retry attempt, whatever the reply text *)
(* is (empty, short or low-confidence).                                    *)
(***************************************************************************)
C31_NoRetryAfterInitialSuccess == success1 > 0 => attempts = 1

\* The initial attempt had a successful call and ended with an empty reply
\* while two retries were allowed: the reflexion loop was not entered.
C31_Witness ==
    /\ pc = "grounding"
    /\ maxRetries = 2
    /\ success1 > 0
    /\ attempts = 1
    /\ replyLog = <<TRUE>>
    /\ response.text.raw = 0

(***************************************************************************)
(* C32: once every call of connectMcpServer, disconnectMcpServer and       *)
(* shutdownMcpClients that was started has completed, the names isMcpTool  *)
(* recognizes are the names getMcpTools lists, also when the tools of two  *)
(* servers sanitize to one name and when two connections of one server     *)
(* overlap.                                                                *)
(* This fails in both of these cases: the disconnection of the server that *)
(* registered a shared name last removes the name the other server still   *)
(* lists, and of two overlapping connections of one server the names only  *)
(* the first registered stay recognized after the second replaced its list.*)
(***************************************************************************)
Quiescent == \A o \in AdminOps : ops[o] = IdleOp

RoutableNames ==
    {n \in ListedNames \cup DOMAIN toolRegistry : isMcpTool(toolRegistry, n)}

C32_RoutableIffListed == Quiescent => RoutableNames = ListedNames

(***************************************************************************)
(* C33: the enable list filters the declarations offered to the model and  *)
(* not the dispatch: a call the model requests for a name that             *)
(* enabledTools excludes is executed all the same if the name is a         *)
(* built-in or a registered external tool.  The for-body goes on with a    *)
(* result of the handler of the name: the success count, the map payloads  *)
(* and the artifact held are those the handler's result gives.             *)
(***************************************************************************)
ExcludedByEnableList(name) ==
    enabledTools.isArray /\ ~Includes(enabledTools.items, name)

HandledBuiltins ==
    {"show_map", "show_traffic", "generate_artifact", "get_user_location",
     "search_places"}

HandlerResults(view, call) ==
    IF isMcpTool(view.registry, call.name)
    THEN {callMcpTool(view.registry, ConnectedServers(view.clients), call.name,
                      call.args, o) : o \in McpOutcomes}
    ELSE {executeFunctionCall(call.name, call.args, Null, o) :
             o \in BuiltinOutcomes(call)}

C33_ExcludedCallStillExecuted ==
    [][(/\ executed' = executed + 1
        /\ ExcludedByEnableList(functionCalls[callIdx].name)
        /\ \/ functionCalls[callIdx].name \in HandledBuiltins
           \/ isMcpTool(dispatchView.registry, functionCalls[callIdx].name))
       => (\E fr \in HandlerResults(dispatchView, functionCalls[callIdx]) :
              /\ successfulCalls' = CountSuccess(successfulCalls, fr)
              /\ allMapData' = PushMapData(allMapData, functionCalls[callIdx], fr)
              /\ artifactDataRef' =
                     UpdateArtifact(artifactDataRef, functionCalls[callIdx], fr))]_vars

\* The enable list is empty; the model requested generate_artifact and the
\* external tool, both were executed and succeeded, and the artifact of
\* generate_artifact is held.
C33_Witness ==
    /\ enabledTools = [isArray |-> TRUE, items |-> <<>>]
    /\ toolbox = {McpCall, ArtifactCall("A")}
    /\ attempts = 1
    /\ stepCount = 1
    /\ executed = 2
    /\ successfulCalls = 2
    /\ artifactDataRef = [title |-> "A", html |-> "A"]

(***************************************************************************)
(* C34: the loop invokes the built-in handlers with no user location, also *)
(* when the request has one.  A dispatched get_user_location returns a     *)
(* result with no error and no visual payload: it is counted as a          *)
(* successful call and changes neither the map payloads nor the artifact.  *)
(* A dispatched search_places without a location argument fails: it is not *)
(* counted and adds no payload.                                            *)
(***************************************************************************)
NoLocationArgument(call) ==
    call.args = Null \/ ~TruthyStr(call.args.location)

C35_ListingNeverEnablesGrounding ==
    /\ ~Includes(ToolsListing(clients), WebSearchChars)
    /\ enabledTools.isArray => (~webSearchEnabled /\ groundingCalls = 0)

\* The servers web_search and web are connected, the client enabled every
\* listed tool, the model requested no call and gave an empty reply: the
\* request ended without the grounded call.
C35_Witness ==
    /\ pc = "done"
    /\ Len(clients) = 2
    /\ enabledTools.isArray
    /\ Len(enabledTools.items) = Len(BuiltinToolNames) + 3
    /\ Includes(enabledTools.items, "external_tool")
    /\ totalSteps = 0
    /\ response.text.raw = 0
    /\ groundingCalls = 0

(***************************************************************************)
(* C36: the step indices of the tool_call and tool_result events are       *)
(* consecutive over the whole request: the k-th dispatch round of the      *)
(* request, counted over the initial attempt and all retries, carries the  *)
(* index k, and no index is repeated or skipped between attempts.  (Every  *)
(* call of a round carries the index of its round.)                        *)
(***************************************************************************)
ToolEntries ==
    LET IsTool(e) == e.kind = "tool" IN SelectSeq(responseLog.entries, IsTool)

\* The round a recorded call belongs to: a round starts with its first call.
RoundOfEntry(i) == Cardinality({j \in 1..i : ToolEntries[j].first})

C36_StepIndicesConsecutive ==
    \A i \in 1..Len(ToolEntries) : ToolEntries[i].step = RoundOfEntry(i)

\* Two rounds of the initial attempt, all calls failed, the reply was not
\* satisfactory; the retry dispatched a round, which carried the index 3.
C36_Witness ==
    /\ attempts = 2
    /\ success1 = 0
    /\ Len(ToolEntries) >= 3
    /\ ToolEntries[Len(ToolEntries)].step = 3
    /\ totalSteps = 2
    /\ stepCount = 1

(***************************************************************************)
(* C37: with a step callback attached, the artifact of the final result is *)
(* the artifact carried by the last artifact event of the request, and it  *)
(* is null exactly when no artifact event was emitted.                     *)
(***************************************************************************)
\* The artifacts carried by the artifact events of the recorded calls, in
\* the order of emission, ref being the artifact held before them: an event
\* for an artifact built from chart data when none is held, then an event
\* for a ready-made artifact.
RECURSIVE EmittedArtifacts(_, _)
EmittedArtifacts(entries, ref) ==
    IF entries = <<>> THEN <<>>
    ELSE IF Head(entries).kind # "tool" THEN EmittedArtifacts(Tail(entries), ref)
    ELSE LET fr == Head(entries).fr
             afterReady == IF TruthyObj(fr.artifactData) THEN fr.artifactData ELSE ref
             derived == TruthyObj(fr.mcpChartData) /\ ~TruthyObj(afterReady)
             built == buildMcpDataArtifact(Head(entries).call.name, fr.mcpChartData)
         IN  (IF derived THEN <<built>> ELSE <<>>)
             \o (IF TruthyObj(fr.artifactData) THEN <<fr.artifactData>> ELSE <<>>)
             \o EmittedArtifacts(Tail(entries), IF derived THEN built ELSE afterReady)

C37_FinalArtifactIsLastEmitted ==
    (pc = "done" /\ onStep) =>
        LET emitted == EmittedArtifacts(responseLog.entries, Null)
        IN  /\ (result.artifactData = Null) <=> (emitted = <<>>)
            /\ emitted # <<>> => result.artifactData = emitted[Len(emitted)]

\* The external tool returned chart data, then generate_artifact was called
\* twice: three artifact events, and the result carries the last artifact.
C37_Witness ==
    /\ pc = "done"
    /\ onStep
    /\ Len(EmittedArtifacts(responseLog.entries, Null)) = 3
    /\ BuiltFromData(EmittedArtifacts(responseLog.entries, Null)[1])
    /\ EmittedArtifacts(responseLog.entries, Null)[2] = [title |-> "A", html |-> "A"]
    /\ result.artifactData = [title |-> "B", html |-> "B"]

(***************************************************************************)
(* C38: the grounded call and the summary call are mutually exclusive: no  *)
(* request makes both, since the grounded call is made only after zero     *)
(* dispatch rounds over all attempts and the summary call only after at    *)
(* least one.                                                              *)
(***************************************************************************)
C38_GroundingExcludesSummary ==
    /\ ~(groundingCalls > 0 /\ summaryCalls > 0)
    /\ groundingCalls > 0 => totalSteps = 0
    /\ summaryCalls > 0 => totalSteps > 0

\* No round was dispatched, the grounded call was made and its reply was
\* empty: chat() returned the empty reply without asking for a summary.
C38_Witness ==
    /\ pc = "done"
    /\ groundingCalls = 1
    /\ ~groundingFailed
    /\ summaryCalls = 0
    /\ result.reply.raw = 0

(***************************************************************************)
(* C39: the reply carried by a done event is never empty: when chat()      *)
(* returns an empty reply, also after a failed or empty summary call, the  *)
(* route puts a fixed placeholder text in its place; and the assistant     *)
(* turn persisted for the request carries the text of the done event.      *)
(***************************************************************************)
C39_DoneReplyNeverEmpty ==
    /\ (doneEvents > 0) <=> (delivered # Null)
    /\ delivered # Null =>
          /\ delivered.done.raw > 0
          /\ delivered.persisted = delivered.done
          /\ result.reply.raw > 0 => delivered.done = result.reply
          /\ result.reply.raw = 0 =>
                delivered.done \in {VisualizationText, RetrievedText}

\* Rounds were dispatched and an artifact is held, the reply was empty and
\* the summary call gave no text either: the done event and the persisted
\* turn carry the placeholder for a visualization.
C39_Witness ==
    /\ pc = "done"
    /\ summaryCalls = 1
    /\ result.reply.raw = 0
    /\ result.artifactData # Null
    /\ delivered.done = VisualizationText
    /\ delivered.persisted = VisualizationText

====
